---- MODULE Spec2Model ----
(***************************************************************************)
(* Model of the genetic mating evaluation engine of genefy:                *)
(*   backend/services/genetics.py  (GeneticCalculator)                     *)
(*   backend/services/matching.py  (MatchingService)                       *)
(*                                                                         *)
(* Numbers.  Every Python float is modelled as an exact rational <<n, d>>  *)
(* in lowest terms with d > 0.  round(x, k) is modelled as rounding of the *)
(* exact value to the nearest multiple of 10^-k, ties to even (the rule    *)
(* Python documents for round).                                            *)
(*                                                                         *)
(* Dictionaries.  An animal record (the dict built by _prepare_female_data *)
(* or _prepare_bull_data) is modelled as a record of five maps: "top" (the *)
(* scalar top-level keys) and the nested dicts "main_indices",             *)
(* "genetic_data", "reliabilities" and "haplotypes".  A key that is absent *)
(* and a key whose value is None are the same thing to dict.get, which is  *)
(* the only way the calculator reads a record.                             *)
(***************************************************************************)
EXTENDS Integers, Sequences, FiniteSets, TLC

VARIABLES females, bulls, top_n, max_inbreeding, custom_weights,
          params, population_stats, op, result

vars == <<females, bulls, top_n, max_inbreeding, custom_weights,
          params, population_stats, op, result>>

(***************************************************************************)
(* Exact rational arithmetic                                               *)
(***************************************************************************)
Abs(x) == IF x < 0 THEN -x ELSE x

Min(S) == CHOOSE x \in S : \A y \in S : x <= y

RECURSIVE GCD(_, _)
GCD(a, b) == IF b = 0 THEN a ELSE GCD(b, a % b)

Rat(n, d) ==
    LET g == GCD(Abs(n), d) IN <<n \div g, d \div g>>

RatInt(n) == <<n, 1>>

RatNeg(a) == <<-a[1], a[2]>>

RatAdd(a, b) ==
    LET g == GCD(a[2], b[2])
        l == (a[2] \div g) * b[2]
    IN  Rat(a[1] * (l \div a[2]) + b[1] * (l \div b[2]), l)

RatSub(a, b) == RatAdd(a, RatNeg(b))

RatMul(a, b) ==
    LET g1 == GCD(Abs(a[1]), b[2])
        g2 == GCD(Abs(b[1]), a[2])
    IN  Rat((a[1] \div g1) * (b[1] \div g2), (a[2] \div g2) * (b[2] \div g1))

\* a / b for b # 0
RatDiv(a, b) ==
    IF b[1] > 0 THEN RatMul(a, <<b[2], b[1]>>)
                ELSE RatMul(a, <<-b[2], -b[1]>>)

RatLt(a, b) == a[1] * b[2] < b[1] * a[2]

RatLeq(a, b) == a[1] * b[2] <= b[1] * a[2]

RatMin(a, b) == IF RatLeq(a, b) THEN a ELSE b

RatMax(a, b) == IF RatLeq(a, b) THEN b ELSE a

RECURSIVE ScaledDiv(_, _, _, _)
\* long division: <<q, r>> with (q0 + r0/d) * scale = q + r/d and 0 <= r < d,
\* for 0 <= r0 < d and scale a power of ten, one decimal digit at a time
ScaledDiv(q0, r0, d, scale) ==
    IF scale = 1 THEN <<q0, r0>>
    ELSE ScaledDiv(q0 * 10 + (r0 * 10) \div d, (r0 * 10) % d, d, scale \div 10)

\* q + r/d rounded to the nearest integer, ties to even (0 <= r < d)
RoundHalfEven(q, r, d) ==
    IF r < d - r THEN q
    ELSE IF r > d - r THEN q + 1
    ELSE IF q % 2 = 0 THEN q ELSE q + 1

\* Python round(x, k) with scale = 10^k
Round(x, scale) ==
    LET qr == ScaledDiv(x[1] \div x[2], x[1] % x[2], x[2], scale)
    IN  Rat(RoundHalfEven(qr[1], qr[2], x[2]), scale)

RECURSIVE RatSum(_)
RatSum(s) == IF s = <<>> THEN RatInt(0) ELSE RatAdd(s[1], RatSum(Tail(s)))

(***************************************************************************)
(* Python values held in a record                                          *)
(***************************************************************************)
None == [t |-> "none", n |-> <<0, 1>>, s |-> ""]

Num(r) == [t |-> "num", n |-> r, s |-> ""]

Str(x) == [t |-> "str", n |-> <<0, 1>>, s |-> x]

\* an int beyond the range of a float, as a JSON document can hold one
Big == [t |-> "big", n |-> <<0, 1>>, s |-> ""]

Get(m, k) == IF k \in DOMAIN m THEN m[k] ELSE None

\* The strings float() accepts, among the strings that occur in the model.
\* float('inf') and float('nan') succeed and give the non-finite floats,
\* written here with denominator 0: <<1, 0>> is inf, <<0, 0>> is nan.
StrFloat ==
    ("0" :> <<0, 1>>) @@ ("1" :> <<1, 1>>) @@ ("1500" :> <<1500, 1>>) @@
    ("60" :> <<60, 1>>) @@ ("7.5" :> <<15, 2>>) @@
    ("inf" :> <<1, 0>>) @@ ("nan" :> <<0, 0>>)

\* math.isfinite(x)
IsFinite(x) == x[2] # 0

\* float(value) succeeds
Parses(v) == v.t = "num" \/ (v.t = "str" /\ v.s \in DOMAIN StrFloat)

\* float(value), for a value on which it succeeds
FloatOf(v) == IF v.t = "num" THEN v.n ELSE StrFloat[v.s]

\* float(value) raises OverflowError, which no handler of the module catches
Overflows(v) == v.t = "big"

\* str.upper() and str.lower() on the keys and words of the model
UpperTable ==
    ("c" :> "C") @@ ("f" :> "F") @@ ("t" :> "T") @@ ("free" :> "FREE") @@
    ("Free" :> "FREE") @@ ("carrier" :> "CARRIER") @@ ("Carrier" :> "CARRIER") @@
    ("tested free" :> "TESTED FREE") @@ ("x" :> "X") @@
    ("stature" :> "STATURE") @@
    ("hh1" :> "HH1") @@ ("hh2" :> "HH2") @@ ("hh3" :> "HH3") @@
    ("hh4" :> "HH4") @@ ("hh5" :> "HH5") @@ ("hh6" :> "HH6") @@
    ("milk" :> "MILK") @@ ("protein" :> "PROTEIN") @@ ("fat" :> "FAT") @@
    ("fat_percent" :> "FAT_PERCENT") @@ ("protein_percent" :> "PROTEIN_PERCENT") @@
    ("net_merit" :> "NET_MERIT") @@ ("tpi" :> "TPI") @@ ("udc" :> "UDC") @@
    ("flc" :> "FLC") @@ ("ptat" :> "PTAT") @@ ("bwc" :> "BWC") @@
    ("feed_saved" :> "FEED_SAVED") @@ ("rfi" :> "RFI") @@
    ("cow_livability" :> "COW_LIVABILITY") @@ ("mastitis" :> "MASTITIS") @@
    ("metritis" :> "METRITIS") @@ ("displaced_abomasum" :> "DISPLACED_ABOMASUM") @@
    ("ketosis" :> "KETOSIS") @@ ("milk_fever" :> "MILK_FEVER") @@
    ("early_first_calving" :> "EARLY_FIRST_CALVING") @@
    ("milking_speed" :> "MILKING_SPEED") @@
    ("sire_calving_ease" :> "SIRE_CALVING_EASE") @@
    ("daughter_calving_ease" :> "DAUGHTER_CALVING_EASE") @@
    ("sire_stillbirth" :> "SIRE_STILLBIRTH") @@
    ("daughter_stillbirth" :> "DAUGHTER_STILLBIRTH") @@
    ("productive_life" :> "PRODUCTIVE_LIFE") @@ ("scs" :> "SCS") @@
    ("dpr" :> "DPR") @@ ("hcr" :> "HCR") @@ ("ccr" :> "CCR") @@
    ("fertility_index" :> "FERTILITY_INDEX") @@
    ("genomic_inbreeding" :> "GENOMIC_INBREEDING") @@ ("gfi" :> "GFI")

\* strings of the model that are already upper case map to themselves
Upper(s) == IF s \in DOMAIN UpperTable THEN UpperTable[s] ELSE s

\* the keys of the model are lower case; only they are passed to Lower
Lower(s) == s

(***************************************************************************)
(* GeneticParameters and the population statistics                         *)
(***************************************************************************)
DefaultCategoryWeights ==
    [production |-> Rat(30, 100), health |-> Rat(20, 100),
     fertility |-> Rat(18, 100), type |-> Rat(12, 100),
     efficiency |-> Rat(12, 100), calving |-> Rat(8, 100)]

DefaultIndexWeights ==
    [production |-> [milk |-> Rat(40, 100), protein |-> Rat(30, 100),
                     fat |-> Rat(20, 100), protein_percent |-> Rat(5, 100),
                     fat_percent |-> Rat(5, 100)],
     health |-> [productive_life |-> Rat(35, 100), scs |-> Rat(20, 100),
                 cow_livability |-> Rat(15, 100), mastitis |-> Rat(10, 100),
                 metritis |-> Rat(5, 100), displaced_abomasum |-> Rat(5, 100),
                 ketosis |-> Rat(5, 100), milk_fever |-> Rat(5, 100)],
     fertility |-> [fertility_index |-> Rat(30, 100), dpr |-> Rat(25, 100),
                    ccr |-> Rat(20, 100), hcr |-> Rat(15, 100),
                    early_first_calving |-> Rat(10, 100)],
     type |-> [udc |-> Rat(40, 100), flc |-> Rat(30, 100),
               ptat |-> Rat(20, 100), bwc |-> Rat(10, 100)],
     efficiency |-> [feed_saved |-> Rat(40, 100), rfi |-> Rat(40, 100),
                     milking_speed |-> Rat(20, 100)],
     calving |-> [sire_calving_ease |-> Rat(30, 100),
                  daughter_calving_ease |-> Rat(30, 100),
                  sire_stillbirth |-> Rat(20, 100),
                  daughter_stillbirth |-> Rat(20, 100)]]

DefaultNegativeIndices ==
    {"scs", "rfi", "sire_calving_ease", "daughter_calving_ease",
     "sire_stillbirth", "daughter_stillbirth", "gestation_length",
     "mastitis", "metritis", "retained_placenta", "displaced_abomasum",
     "ketosis", "milk_fever"}

GeneticParameters ==
    [category_weights |-> DefaultCategoryWeights,
     index_weights |-> DefaultIndexWeights,
     negative_indices |-> DefaultNegativeIndices,
     inbreeding_ideal |-> Rat(625, 100),
     inbreeding_acceptable |-> Rat(8, 1),
     inbreeding_warning |-> Rat(10, 1),
     inbreeding_penalty_lambda |-> Rat(3, 1),
     default_bull_reliability |-> Rat(75, 1),
     default_cow_reliability |-> Rat(55, 1)]

St(mean, std) == [mean |-> mean, std |-> std]

PopulationStats ==
    [milk |-> St(Rat(500, 1), Rat(700, 1)),
     protein |-> St(Rat(20, 1), Rat(25, 1)),
     fat |-> St(Rat(25, 1), Rat(35, 1)),
     fat_percent |-> St(Rat(0, 1), Rat(15, 100)),
     protein_percent |-> St(Rat(0, 1), Rat(8, 100)),
     net_merit |-> St(Rat(400, 1), Rat(350, 1)),
     cheese_merit |-> St(Rat(450, 1), Rat(380, 1)),
     fluid_merit |-> St(Rat(350, 1), Rat(320, 1)),
     grazing_merit |-> St(Rat(300, 1), Rat(280, 1)),
     productive_life |-> St(Rat(3, 1), Rat(25, 10)),
     scs |-> St(Rat(285, 100), Rat(15, 100)),
     dpr |-> St(Rat(5, 10), Rat(2, 1)),
     hcr |-> St(Rat(5, 10), Rat(25, 10)),
     ccr |-> St(Rat(5, 10), Rat(25, 10)),
     fertility_index |-> St(Rat(5, 10), Rat(15, 10)),
     ptat |-> St(Rat(5, 10), Rat(15, 10)),
     udc |-> St(Rat(5, 10), Rat(12, 10)),
     flc |-> St(Rat(3, 10), Rat(1, 1)),
     bwc |-> St(Rat(0, 1), Rat(15, 10)),
     feed_saved |-> St(Rat(100, 1), Rat(80, 1)),
     rfi |-> St(Rat(0, 1), Rat(50, 1)),
     sire_calving_ease |-> St(Rat(25, 10), Rat(8, 10)),
     daughter_calving_ease |-> St(Rat(25, 10), Rat(6, 10)),
     sire_stillbirth |-> St(Rat(7, 1), Rat(2, 1)),
     daughter_stillbirth |-> St(Rat(6, 1), Rat(15, 10)),
     mastitis |-> St(Rat(100, 1), Rat(5, 1)),
     metritis |-> St(Rat(100, 1), Rat(3, 1)),
     cow_livability |-> St(Rat(2, 1), Rat(25, 10)),
     heifer_livability |-> St(Rat(1, 1), Rat(15, 10))]

(***************************************************************************)
(* Trait resolution: GeneticCalculator._get_index_value                    *)
(***************************************************************************)
name_mapping ==
    [genomic_inbreeding |-> <<"genomic_inbreeding", "gINB", "ginb", "gInb">>,
     gfi |-> <<"gfi", "GFI", "genomic_future_inbreeding">>,
     productive_life |-> <<"productive_life", "PRODUCTIVE LIFE", "PL">>,
     fertility_index |-> <<"fertility_index", "FERTILITY INDEX", "FI">>,
     scs |-> <<"scs", "SCS", "SOMATIC CELL SCORE">>,
     dpr |-> <<"dpr", "DPR", "DAUGHTER PREGNANCY RATE">>,
     hcr |-> <<"hcr", "HCR", "HEIFER CONCEPTION RATE">>,
     ccr |-> <<"ccr", "CCR", "COW CONCEPTION RATE">>]

KeysToTry(index) ==
    IF index \in DOMAIN name_mapping THEN name_mapping[index]
    ELSE <<index, Upper(index), Lower(index)>>

\* the first key of keys, in order, whose value in map m is not None and is
\* accepted by float(); None when there is no such key
FirstParsed(m, keys) ==
    LET hits == {i \in 1..Len(keys) : Parses(Get(m, keys[i]))}
    IN  IF hits = {} THEN None ELSE Num(FloatOf(Get(m, keys[Min(hits)])))

_get_index_value(data, index) ==
    LET keys == KeysToTry(index)
        top == FirstParsed(data.top, keys)
        main == FirstParsed(data.main_indices, keys)
        gen == FirstParsed(data.genetic_data, keys)
    IN  IF top # None THEN top
        ELSE IF main # None THEN main
        ELSE gen

\* the scan of map m stops at the first key whose value float() accepts or
\* overflows on; it raises when that value overflows
FirstRaises(m, keys) ==
    LET stops == {i \in 1..Len(keys) :
                     Parses(Get(m, keys[i])) \/ Overflows(Get(m, keys[i]))}
    IN  stops # {} /\ Overflows(Get(m, keys[Min(stops)]))

\* _get_index_value raises OverflowError instead of returning
IndexValueRaises(data, index) ==
    \/ FirstRaises(data.top, KeysToTry(index))
    \/ /\ FirstParsed(data.top, KeysToTry(index)) = None
       /\ FirstRaises(data.main_indices, KeysToTry(index))
    \/ /\ FirstParsed(data.top, KeysToTry(index)) = None
       /\ FirstParsed(data.main_indices, KeysToTry(index)) = None
       /\ FirstRaises(data.genetic_data, KeysToTry(index))

(***************************************************************************)
(* Reliability resolution: GeneticCalculator._get_reliability              *)
(***************************************************************************)
\* Python truthiness of a value
Truthy(v) ==
    CASE v.t = "none" -> FALSE
      [] v.t = "num" -> v.n[1] # 0
      [] v.t = "str" -> v.s # ""
      [] v.t = "big" -> TRUE

\* a or b
PyOr(a, b) == IF Truthy(a) THEN a ELSE b

\* float(value) succeeds and 0 <= val <= 100; the comparison is false of
\* nan and of inf
InRange(v) ==
    /\ Parses(v)
    /\ IsFinite(FloatOf(v))
    /\ RatLeq(RatInt(0), FloatOf(v))
    /\ RatLeq(FloatOf(v), RatInt(100))

\* int(value) succeeds: any number, or a string holding an integer literal
IntParses(v) ==
    \/ v.t = "num"
    \/ v.t = "big"
    \/ (v.t = "str" /\ v.s \in DOMAIN StrFloat /\ StrFloat[v.s][2] = 1)

\* int(value): truncation toward zero
IntOf(v) ==
    LET r == FloatOf(v)
    IN  IF r[1] >= 0 THEN r[1] \div r[2] ELSE -((-r[1]) \div r[2])

\* step 4, "Inferir por filhas": the value returned for a bull from its
\* number of daughters, None when the step returns nothing
InferFromDaughters(data) ==
    LET daughters == PyOr(Get(data.top, "daughters"), Get(data.top, "num_daughters"))
        d == IntOf(daughters)
    IN  IF ~Truthy(daughters) \/ ~IntParses(daughters) THEN None
        ELSE IF daughters.t = "big" THEN Num(RatInt(99))
        ELSE IF d >= 1000 THEN Num(RatInt(99))
        ELSE IF d >= 500 THEN Num(RatInt(95))
        ELSE IF d >= 100 THEN Num(RatInt(85))
        ELSE IF d >= 50 THEN Num(RatInt(80))
        ELSE IF d > 0 THEN Num(RatInt(75))
        ELSE None

_get_reliability(data, index, is_bull) ==
    LET rel_key == index \o "_rel"
        v1 == Get(data.top, rel_key)
        v2 == PyOr(Get(data.reliabilities, rel_key), Get(data.reliabilities, index))
        keys3 == <<rel_key, Upper(index) \o "_REL", index \o " REL">>
        hits3 == {i \in 1..3 : InRange(Get(data.genetic_data, keys3[i]))}
        v4 == IF is_bull THEN InferFromDaughters(data) ELSE None
    IN  IF InRange(v1) THEN FloatOf(v1)
        ELSE IF InRange(v2) THEN FloatOf(v2)
        ELSE IF hits3 # {} THEN FloatOf(Get(data.genetic_data, keys3[Min(hits3)]))
        ELSE IF v4 # None THEN v4.n
        ELSE IF is_bull THEN params.default_bull_reliability
        ELSE params.default_cow_reliability

\* _get_reliability raises OverflowError: float() meets an oversized int in
\* step 1, 2 or 3 before a step has returned
ReliabilityRaises(data, index) ==
    LET rel_key == index \o "_rel"
        v1 == Get(data.top, rel_key)
        v2 == PyOr(Get(data.reliabilities, rel_key), Get(data.reliabilities, index))
        keys3 == <<rel_key, Upper(index) \o "_REL", index \o " REL">>
    IN  \/ Overflows(v1)
        \/ ~InRange(v1) /\ Overflows(v2)
        \/ /\ ~InRange(v1)
           /\ ~InRange(v2)
           /\ \E i \in 1..3 :
                 /\ Overflows(Get(data.genetic_data, keys3[i]))
                 /\ \A j \in 1..(i - 1) : ~InRange(Get(data.genetic_data, keys3[j]))

(***************************************************************************)
(* PPPV: GeneticCalculator.calculate_pppv                                  *)
(***************************************************************************)
DefaultPPPVIndices ==
    <<"milk", "protein", "fat", "fat_percent", "protein_percent",
      "productive_life", "scs", "dpr", "fertility_index", "udc", "flc",
      "ptat", "net_merit", "tpi", "hcr", "ccr", "feed_saved", "rfi">>

\* population_stats.get(index, {'mean': 0, 'std': 1})
StatsOf(index) ==
    IF index \in DOMAIN population_stats THEN population_stats[index]
    ELSE St(RatInt(0), RatInt(1))

_interpret_pppv(index, value) ==
    LET stats == StatsOf(index)
        z0 == IF stats.std[1] > 0 THEN RatDiv(RatSub(value, stats.mean), stats.std)
              ELSE RatInt(0)
        z_score == IF index \in params.negative_indices THEN RatNeg(z0) ELSE z0
    IN  IF RatLeq(RatInt(2), z_score) THEN "Excepcional"
        ELSE IF RatLeq(RatInt(1), z_score) THEN "Muito Alto"
        ELSE IF RatLeq(Rat(1, 2), z_score) THEN "Alto"
        ELSE IF RatLeq(Rat(-1, 2), z_score) THEN "Medio"
        ELSE IF RatLeq(RatInt(-1), z_score) THEN "Baixo"
        ELSE "Muito Baixo"

\* a variant of the weighted average with the two weights exchanged
WeightedPPPVSwapped(cow_value, bull_value, cow_rel, bull_rel) ==
    IF RatLt(RatInt(0), RatAdd(bull_rel, cow_rel))
    THEN RatDiv(RatAdd(RatMul(cow_rel, bull_value), RatMul(bull_rel, cow_value)),
                RatAdd(bull_rel, cow_rel))
    ELSE RatDiv(RatAdd(bull_value, cow_value), RatInt(2))

\* a variant of the weighted average that treats the reliabilities as
\* percentages and divides by 100 instead of by their sum
WeightedPPPVPercent(cow_value, bull_value, cow_rel, bull_rel) ==
    IF RatLt(RatInt(0), RatAdd(bull_rel, cow_rel))
    THEN RatDiv(RatAdd(RatMul(bull_rel, bull_value), RatMul(cow_rel, cow_value)),
                RatInt(100))
    ELSE RatDiv(RatAdd(bull_value, cow_value), RatInt(2))

\* a variant of the weighted average that falls back to the sire value when
\* both reliabilities are zero
WeightedPPPVSireFallback(cow_value, bull_value, cow_rel, bull_rel) ==
    IF RatLt(RatInt(0), RatAdd(bull_rel, cow_rel))
    THEN RatDiv(RatAdd(RatMul(bull_rel, bull_value), RatMul(cow_rel, cow_value)),
                RatAdd(bull_rel, cow_rel))
    ELSE bull_value

\* the weighted average of lines 105-108
WeightedPPPV(cow_value, bull_value, cow_rel, bull_rel) ==
    IF RatLt(RatInt(0), RatAdd(bull_rel, cow_rel))
    THEN RatDiv(RatAdd(RatMul(bull_rel, bull_value), RatMul(cow_rel, cow_value)),
                RatAdd(bull_rel, cow_rel))
    ELSE RatDiv(RatAdd(bull_value, cow_value), RatInt(2))

\* one entry of the result; the statistical fields variance, std_dev and
\* ci_95 (a square root) are not part of the model
PPPVRecord(index, cow_value, bull_value, cow_rel, bull_rel, pppv) ==
    [cow_value |-> Round(cow_value, 100),
     bull_value |-> Round(bull_value, 100),
     cow_reliability |-> Round(cow_rel, 10),
     bull_reliability |-> Round(bull_rel, 10),
     pppv |-> Round(pppv, 100),
     combined_reliability |->
        Round(RatAdd(RatDiv(RatAdd(cow_rel, bull_rel), RatInt(4)), RatInt(25)), 10),
     interpretation |-> _interpret_pppv(index, pppv)]

\* lines 105-108 applied to the resolved values and reliabilities
PPPVOf(index, cow_value, bull_value, cow_rel, bull_rel) ==
    PPPVRecord(index, cow_value, bull_value, cow_rel, bull_rel,
               WeightedPPPV(cow_value, bull_value, cow_rel, bull_rel))

\* lines 96-103: the values and reliabilities of one trait
PPPVEntry(female_data, bull_data, index) ==
    PPPVOf(index,
           _get_index_value(female_data, index).n,
           _get_index_value(bull_data, index).n,
           _get_reliability(female_data, index, FALSE),
           _get_reliability(bull_data, index, TRUE))

\* a variant of calculate_pppv that stops at the first trait without a value
\* on either side instead of going on to the next trait
calculate_pppv_until_missing(female_data, bull_data, indices) ==
    LET idx == IF indices = <<>> THEN DefaultPPPVIndices ELSE indices
        present == {idx[i] : i \in {j \in 1..Len(idx) :
                        \A k \in 1..j :
                            /\ _get_index_value(female_data, idx[k]) # None
                            /\ _get_index_value(bull_data, idx[k]) # None}}
    IN  [index \in present |-> PPPVEntry(female_data, bull_data, index)]

\* indices is the list of requested traits; an empty list selects the default
calculate_pppv(female_data, bull_data, indices) ==
    LET idx == IF indices = <<>> THEN DefaultPPPVIndices ELSE indices
        present == {idx[i] : i \in {j \in 1..Len(idx) :
                        /\ _get_index_value(female_data, idx[j]) # None
                        /\ _get_index_value(bull_data, idx[j]) # None}}
    IN  [index \in present |-> PPPVEntry(female_data, bull_data, index)]

\* calculate_pppv raises OverflowError: a lookup of lines 96-103 does, for
\* one of the traits
PPPVRaises(female_data, bull_data, indices) ==
    \E index \in {(IF indices = <<>> THEN DefaultPPPVIndices ELSE indices)[i] :
                      i \in 1..Len(IF indices = <<>> THEN DefaultPPPVIndices ELSE indices)} :
        \/ IndexValueRaises(female_data, index)
        \/ IndexValueRaises(bull_data, index)
        \/ /\ _get_index_value(female_data, index) # None
           /\ _get_index_value(bull_data, index) # None
           /\ \/ ReliabilityRaises(female_data, index)
              \/ ReliabilityRaises(bull_data, index)

(***************************************************************************)
(* Inbreeding: GeneticCalculator.calculate_inbreeding and its helpers      *)
(***************************************************************************)
\* a variant of the pedigree estimate that tests the relationships from the
\* most distant to the closest
_calculate_pedigree_inbreeding_distant_first(female_data, bull_data) ==
    LET cow_sire == PyOr(Get(female_data.top, "sire_naab"), Get(female_data.top, "sire_reg"))
        cow_mgs == PyOr(Get(female_data.top, "mgs_naab"), Get(female_data.top, "mgs_reg"))
        bull_sire == PyOr(Get(bull_data.top, "sire_naab"), Get(bull_data.top, "sire_reg"))
        bull_mgs == PyOr(Get(bull_data.top, "mgs_naab"), Get(bull_data.top, "mgs_reg"))
        naab_code == Get(bull_data.top, "naab_code")
        coancestry ==
            IF Truthy(cow_mgs) /\ Truthy(bull_mgs) /\ cow_mgs = bull_mgs
                 THEN Rat(625, 10000)
            ELSE IF Truthy(cow_sire) /\ Truthy(bull_sire) /\ cow_sire = bull_sire
                 THEN Rat(125, 1000)
            ELSE IF Truthy(cow_mgs) /\ naab_code = cow_mgs THEN Rat(125, 1000)
            ELSE IF Truthy(cow_sire) /\ naab_code = cow_sire THEN Rat(25, 100)
            ELSE Rat(4, 100)
    IN  IF RatLt(RatInt(0), coancestry) THEN Num(RatMul(coancestry, RatInt(100)))
        ELSE None

_calculate_pedigree_inbreeding(female_data, bull_data) ==
    LET cow_sire == PyOr(Get(female_data.top, "sire_naab"), Get(female_data.top, "sire_reg"))
        cow_mgs == PyOr(Get(female_data.top, "mgs_naab"), Get(female_data.top, "mgs_reg"))
        bull_sire == PyOr(Get(bull_data.top, "sire_naab"), Get(bull_data.top, "sire_reg"))
        bull_mgs == PyOr(Get(bull_data.top, "mgs_naab"), Get(bull_data.top, "mgs_reg"))
        naab_code == Get(bull_data.top, "naab_code")
        coancestry ==
            IF Truthy(cow_sire) /\ naab_code = cow_sire THEN Rat(25, 100)
            ELSE IF Truthy(cow_mgs) /\ naab_code = cow_mgs THEN Rat(125, 1000)
            ELSE IF Truthy(cow_sire) /\ Truthy(bull_sire) /\ cow_sire = bull_sire
                 THEN Rat(125, 1000)
            ELSE IF Truthy(cow_mgs) /\ Truthy(bull_mgs) /\ cow_mgs = bull_mgs
                 THEN Rat(625, 10000)
            ELSE Rat(4, 100)
    IN  IF RatLt(RatInt(0), coancestry) THEN Num(RatMul(coancestry, RatInt(100)))
        ELSE None

HaplotypePanel == <<"hh1", "hh2", "hh3", "hh4", "hh5", "hh6">>

\* str(value).upper(); str() of a number is a decimal literal, which is none
\* of the status words
StrUpper(v) == IF v.t = "str" THEN Upper(v.s) ELSE "0.0"

\* what one top-level value decides: "Free", "Carrier" or "" (nothing, the
\* loop goes on to the next key)
TopStatus(v) ==
    IF v.t = "str"
    THEN IF Upper(v.s) \in {"T", "F", "FREE", "TESTED FREE"} THEN "Free"
         ELSE IF Upper(v.s) \in {"C", "CARRIER"} THEN "Carrier"
         ELSE ""
    ELSE IF v.t = "num" THEN (IF v.n[1] = 0 THEN "Free" ELSE "Carrier")
    ELSE ""

\* what one value of the genetic_data sub-map decides
GeneticStatus(v) ==
    IF v = None THEN ""
    ELSE IF StrUpper(v) \in {"T", "F", "FREE"} THEN "Free"
    ELSE IF StrUpper(v) \in {"C", "CARRIER"} THEN "Carrier"
    ELSE ""

\* what the haplotypes sub-map decides
HaplotypesStatus(m, haplotype) ==
    LET value == PyOr(Get(m, haplotype), Get(m, Upper(haplotype)))
    IN  IF ~Truthy(value) THEN ""
        ELSE IF StrUpper(value) \in {"T", "F", "FREE", "TESTED FREE"} THEN "Free"
        ELSE IF StrUpper(value) \in {"C", "CARRIER"} THEN "Carrier"
        ELSE ""

_get_haplotype_status(data, haplotype) ==
    LET keys1 == <<haplotype, Upper(haplotype), Lower(haplotype)>>
        hits1 == {i \in 1..3 : TopStatus(Get(data.top, keys1[i])) # ""}
        keys2 == <<haplotype, Upper(haplotype)>>
        hits2 == {i \in 1..2 : GeneticStatus(Get(data.genetic_data, keys2[i])) # ""}
        s3 == HaplotypesStatus(data.haplotypes, haplotype)
    IN  IF hits1 # {} THEN TopStatus(Get(data.top, keys1[Min(hits1)]))
        ELSE IF hits2 # {} THEN GeneticStatus(Get(data.genetic_data, keys2[Min(hits2)]))
        ELSE IF s3 # "" THEN s3
        ELSE "Unknown"

\* a variant of the marker analysis that counts every status other than Free
\* as Carrier
HaplotypeRecordNotFree(hap, cow_status, bull_status) ==
    [haplotype |-> Upper(hap), cow_status |-> cow_status,
     bull_status |-> bull_status,
     severity |-> IF cow_status # "Free" /\ bull_status # "Free"
                  THEN "critical"
                  ELSE IF cow_status # "Free" \/ bull_status # "Free"
                  THEN "low"
                  ELSE "none"]

\* lines 266-270: the record appended for one marker; severity "none"
\* stands for no record
HaplotypeRecord(hap, cow_status, bull_status) ==
    [haplotype |-> Upper(hap), cow_status |-> cow_status,
     bull_status |-> bull_status,
     severity |-> IF cow_status = "Carrier" /\ bull_status = "Carrier"
                  THEN "critical"
                  ELSE IF cow_status = "Carrier" \/ bull_status = "Carrier"
                  THEN "low"
                  ELSE "none"]

\* lines 263-265: the statuses of both parents for one marker
HaplotypeRisk(female_data, bull_data, hap) ==
    HaplotypeRecord(hap, _get_haplotype_status(female_data, hap),
                    _get_haplotype_status(bull_data, hap))

IsRecord(r) == r.severity # "none"

_analyze_haplotypes(female_data, bull_data) ==
    SelectSeq([i \in 1..Len(HaplotypePanel) |->
                  HaplotypeRisk(female_data, bull_data, HaplotypePanel[i])],
              IsRecord)

_classify_inbreeding_risk(inbreeding) ==
    IF RatLt(inbreeding, params.inbreeding_ideal) THEN "Baixo"
    ELSE IF RatLt(inbreeding, params.inbreeding_acceptable) THEN "Moderado"
    ELSE IF RatLt(inbreeding, params.inbreeding_warning) THEN "Alto"
    ELSE "Critico"

HasCritical(haplotype_risks) ==
    \E i \in 1..Len(haplotype_risks) : haplotype_risks[i].severity = "critical"

_inbreeding_recommendation(inbreeding, haplotype_risks) ==
    IF HasCritical(haplotype_risks) THEN "nao recomendado - risco letal de haplotipos"
    ELSE IF RatLt(inbreeding, params.inbreeding_ideal) THEN "recomendado - consanguinidade ideal"
    ELSE IF RatLt(inbreeding, params.inbreeding_acceptable) THEN "aceitavel - monitorar progenie"
    ELSE IF RatLt(inbreeding, params.inbreeding_warning) THEN "atencao - considerar alternativas"
    ELSE "nao recomendado - consanguinidade elevada"

\* a variant of the estimate that prefers the pedigree estimate to the
\* genomic figures
EstimateFromPedigreeFirst(cow_ginb, bull_gfi, pedigree_inb) ==
    IF pedigree_inb # None
    THEN [value |-> pedigree_inb.n, method |-> "pedigree"]
    ELSE IF cow_ginb # None /\ bull_gfi # None
    THEN [value |-> RatAdd(RatDiv(cow_ginb.n, RatInt(4)), RatDiv(bull_gfi.n, RatInt(2))),
          method |-> "genomic"]
    ELSE IF cow_ginb # None
    THEN [value |-> RatAdd(RatDiv(cow_ginb.n, RatInt(4)), RatInt(4)),
          method |-> "partial_genomic"]
    ELSE IF bull_gfi # None
    THEN [value |-> RatAdd(RatDiv(bull_gfi.n, RatInt(2)), RatInt(3)),
          method |-> "partial_genomic"]
    ELSE [value |-> Rat(85, 10), method |-> "estimated"]

\* lines 207-226: the estimate before rounding and the method that gave it
\* lines 211-226: the estimate and its method, by what is known
EstimateFrom(cow_ginb, bull_gfi, pedigree_inb) ==
    IF cow_ginb # None /\ bull_gfi # None
    THEN [value |-> RatAdd(RatDiv(cow_ginb.n, RatInt(4)), RatDiv(bull_gfi.n, RatInt(2))),
          method |-> "genomic"]
    ELSE IF cow_ginb # None
    THEN [value |-> RatAdd(RatDiv(cow_ginb.n, RatInt(4)), RatInt(4)),
          method |-> "partial_genomic"]
    ELSE IF bull_gfi # None
    THEN [value |-> RatAdd(RatDiv(bull_gfi.n, RatInt(2)), RatInt(3)),
          method |-> "partial_genomic"]
    ELSE IF pedigree_inb # None
    THEN [value |-> pedigree_inb.n, method |-> "pedigree"]
    ELSE [value |-> Rat(85, 10), method |-> "estimated"]

ExpectedInbreeding(female_data, bull_data) ==
    EstimateFrom(_get_index_value(female_data, "genomic_inbreeding"),
                 _get_index_value(bull_data, "gfi"),
                 _calculate_pedigree_inbreeding(female_data, bull_data))

\* a variant of the acceptability test that looks at the inbreeding value only
AcceptableByInbreedingOnly(expected_inbreeding, haplotype_risks) ==
    RatLeq(expected_inbreeding, params.inbreeding_acceptable)

\* line 230
Acceptable(expected_inbreeding, haplotype_risks) ==
    /\ RatLeq(expected_inbreeding, params.inbreeding_acceptable)
    /\ ~HasCritical(haplotype_risks)

\* round(x, 2) if x else None
RoundIfTruthy(v) == IF Truthy(v) THEN Num(Round(v.n, 100)) ELSE None

\* lines 228-238: the result record
InbreedingResult(est, haplotype_risks, cow_ginb, bull_gfi) ==
    [expected_inbreeding |-> Round(est.value, 100),
     method |-> est.method,
     risk_level |-> _classify_inbreeding_risk(est.value),
     acceptable |-> Acceptable(est.value, haplotype_risks),
     details |-> [cow_ginb |-> RoundIfTruthy(cow_ginb),
                  bull_gfi |-> RoundIfTruthy(bull_gfi)],
     haplotype_risks |-> haplotype_risks,
     recommendation |-> _inbreeding_recommendation(est.value, haplotype_risks)]

calculate_inbreeding(female_data, bull_data) ==
    InbreedingResult(ExpectedInbreeding(female_data, bull_data),
                     _analyze_haplotypes(female_data, bull_data),
                     _get_index_value(female_data, "genomic_inbreeding"),
                     _get_index_value(bull_data, "gfi"))

\* calculate_inbreeding raises OverflowError: line 207 or line 208 does
InbreedingRaises(female_data, bull_data) ==
    \/ IndexValueRaises(female_data, "genomic_inbreeding")
    \/ IndexValueRaises(bull_data, "gfi")

(***************************************************************************)
(* Economic index: GeneticCalculator.calculate_economic_index              *)
(***************************************************************************)
RECURSIVE SumFn(_)
\* the sum of the values of a function with a finite domain
SumFn(f) ==
    IF DOMAIN f = {} THEN RatInt(0)
    ELSE LET x == CHOOSE y \in DOMAIN f : TRUE
         IN  RatAdd(f[x], SumFn([y \in DOMAIN f \ {x} |-> f[y]]))

_normalize_to_z(index, value) ==
    LET stats == StatsOf(index)
    IN  IF stats.std[1] = 0 THEN RatInt(0)
        ELSE RatDiv(RatSub(value, stats.mean), stats.std)

_grade_iep(score) ==
    IF RatLeq(RatInt(85), score) THEN "A+ Excepcional"
    ELSE IF RatLeq(RatInt(75), score) THEN "A Excelente"
    ELSE IF RatLeq(RatInt(65), score) THEN "B+ Muito Bom"
    ELSE IF RatLeq(RatInt(55), score) THEN "B Bom"
    ELSE IF RatLeq(RatInt(45), score) THEN "C Medio"
    ELSE IF RatLeq(RatInt(35), score) THEN "D Abaixo da Media"
    ELSE "F Inadequado"

\* all the traits named by the category -> trait weight table
AllIndices ==
    UNION {DOMAIN params.index_weights[c] : c \in DOMAIN params.index_weights}

\* custom_weights or self.params.category_weights; an empty map stands for
\* both None and {}
CategoryWeights(weights) ==
    IF DOMAIN weights = {} THEN params.category_weights ELSE weights

\* a variant of the contribution that never negates the z-score
ContributionUnsigned(pppv_data, category, index) ==
    RatMul(params.index_weights[category][index],
           _normalize_to_z(index, pppv_data[index].pppv))

\* idx_weight * z_score of one trait, the z-score negated for a negative index
Contribution(pppv_data, category, index) ==
    LET z == _normalize_to_z(index, pppv_data[index].pppv)
        z_score == IF index \in params.negative_indices THEN RatNeg(z) ELSE z
    IN  RatMul(params.index_weights[category][index], z_score)

\* lines 148-163: the score of one category over the traits that have a PPPV
CategoryScore(pppv_data, category) ==
    LET used == DOMAIN params.index_weights[category] \cap DOMAIN pppv_data
    IN  SumFn([index \in used |-> Contribution(pppv_data, category, index)])

\* a variant of the penalty without the test against the ideal level
InbreedingPenaltyUnconditional(inbreeding) ==
    RatMul(params.inbreeding_penalty_lambda, RatSub(inbreeding, params.inbreeding_ideal))

\* lines 172-174
InbreedingPenalty(inbreeding) ==
    IF RatLt(params.inbreeding_ideal, inbreeding)
    THEN RatMul(params.inbreeding_penalty_lambda, RatSub(inbreeding, params.inbreeding_ideal))
    ELSE RatInt(0)

\* a variant of the normalization without the clamp
NormalizedScoreUnclamped(raw_score) ==
    RatAdd(RatInt(50), RatMul(raw_score, RatInt(15)))

\* lines 177-178: max(0, min(100, 50 + raw_score * 15))
NormalizedScore(raw_score) ==
    RatMax(RatInt(0), RatMin(RatInt(100), RatAdd(RatInt(50), RatMul(raw_score, RatInt(15)))))

\* setToSeq, used to walk a set in some order
RECURSIVE SetToSeq(_)
SetToSeq(S) ==
    IF S = {} THEN <<>>
    ELSE LET x == CHOOSE y \in S : TRUE IN <<x>> \o SetToSeq(S \ {x})

\* a variant of the index whose penalty grows with the distance of the
\* inbreeding from the ideal level on either side
EconomicIndexResultPenaltyBothSides(category_weights, pppv_data, inbreeding_data) ==
    LET cats == DOMAIN category_weights \cap DOMAIN params.index_weights
        category_score == [c \in cats |-> CategoryScore(pppv_data, c)]
        category_scores ==
            [c \in cats |->
                [score |-> Round(category_score[c], 1000),
                 weight |-> category_weights[c],
                 contribution |-> Round(RatMul(category_score[c], category_weights[c]), 1000),
                 indices |-> DOMAIN params.index_weights[c] \cap DOMAIN pppv_data]]
        total_score == SumFn([c \in cats |-> RatMul(category_score[c], category_weights[c])])
        distance == RatSub(inbreeding_data.expected_inbreeding, params.inbreeding_ideal)
        inbreeding_penalty ==
            RatMul(params.inbreeding_penalty_lambda, RatMax(distance, RatNeg(distance)))
        raw_score == RatSub(total_score, inbreeding_penalty)
        normalized_score == NormalizedScore(raw_score)
        avg_reliability ==
            IF DOMAIN pppv_data = {} THEN RatInt(50)
            ELSE RatDiv(SumFn([i \in DOMAIN pppv_data |-> pppv_data[i].combined_reliability]),
                        RatInt(Cardinality(DOMAIN pppv_data)))
    IN  [iep_raw |-> Round(raw_score, 1000),
         iep_normalized |-> Round(normalized_score, 10),
         base_score |-> Round(total_score, 1000),
         inbreeding_penalty |-> Round(inbreeding_penalty, 1000),
         grade |-> _grade_iep(normalized_score),
         categories |-> category_scores,
         inbreeding |-> inbreeding_data,
         reliability |-> Round(avg_reliability, 10)]

\* lines 142-188: the index from the category weights, the PPPV of every
\* trait and the inbreeding analysis
EconomicIndexResult(category_weights, pppv_data, inbreeding_data) ==
    LET cats == DOMAIN category_weights \cap DOMAIN params.index_weights
        category_score == [c \in cats |-> CategoryScore(pppv_data, c)]
        category_scores ==
            [c \in cats |->
                [score |-> Round(category_score[c], 1000),
                 weight |-> category_weights[c],
                 contribution |-> Round(RatMul(category_score[c], category_weights[c]), 1000),
                 indices |-> DOMAIN params.index_weights[c] \cap DOMAIN pppv_data]]
        total_score == SumFn([c \in cats |-> RatMul(category_score[c], category_weights[c])])
        inbreeding_penalty == InbreedingPenalty(inbreeding_data.expected_inbreeding)
        raw_score == RatSub(total_score, inbreeding_penalty)
        normalized_score == NormalizedScore(raw_score)
        avg_reliability ==
            IF DOMAIN pppv_data = {} THEN RatInt(50)
            ELSE RatDiv(SumFn([i \in DOMAIN pppv_data |-> pppv_data[i].combined_reliability]),
                        RatInt(Cardinality(DOMAIN pppv_data)))
    IN  [iep_raw |-> Round(raw_score, 1000),
         iep_normalized |-> Round(normalized_score, 10),
         base_score |-> Round(total_score, 1000),
         inbreeding_penalty |-> Round(inbreeding_penalty, 1000),
         grade |-> _grade_iep(normalized_score),
         categories |-> category_scores,
         inbreeding |-> inbreeding_data,
         reliability |-> Round(avg_reliability, 10)]

calculate_economic_index(female_data, bull_data, weights) ==
    EconomicIndexResult(CategoryWeights(weights),
                        calculate_pppv(female_data, bull_data, SetToSeq(AllIndices)),
                        calculate_inbreeding(female_data, bull_data))

\* calculate_economic_index raises OverflowError: line 139 or line 169 does
EconomicIndexRaises(female_data, bull_data) ==
    \/ PPPVRaises(female_data, bull_data, SetToSeq(AllIndices))
    \/ InbreedingRaises(female_data, bull_data)

(***************************************************************************)
(* Ranking: GeneticCalculator.rank_bulls_for_female                        *)
(***************************************************************************)
\* lines 338-354: the entry built for one bull
RankRecord(bull_data, iep_result) ==
    [bull |-> [id |-> Get(bull_data.top, "id"), code |-> Get(bull_data.top, "code"),
               name |-> Get(bull_data.top, "name"),
               source |-> Get(bull_data.top, "source")],
     iep |-> iep_result.iep_normalized,
     grade |-> iep_result.grade,
     inbreeding |-> iep_result.inbreeding.expected_inbreeding,
     inbreeding_risk |-> iep_result.inbreeding.risk_level,
     categories |-> [c \in DOMAIN iep_result.categories |-> iep_result.categories[c].score],
     reliability |-> iep_result.reliability,
     full_analysis |-> iep_result,
     rank |-> 0]

\* line 337: the economic index of the pair
RankEntry(female_data, bull_data, weights) ==
    RankRecord(bull_data, calculate_economic_index(female_data, bull_data, weights))

\* a variant of the filter that uses the configured acceptable threshold
\* instead of the limit of the call
EligibleByDefaultThreshold(entry, max_inb) ==
    /\ ~RatLt(params.inbreeding_acceptable, entry.inbreeding)
    /\ ~HasCritical(entry.full_analysis.inbreeding.haplotype_risks)

\* lines 341-346: the entry passes both filters
Eligible(entry, max_inb) ==
    /\ ~RatLt(max_inb, entry.inbreeding)
    /\ ~HasCritical(entry.full_analysis.inbreeding.haplotype_risks)

\* a variant of the insertion that keeps the order of arrival (no sort)
InsertLast(sorted, e) == Append(sorted, e)

\* a variant of the insertion that puts e before the entries of equal iep
\* (an unstable sort)
InsertDescBeforeTies(sorted, e) ==
    LET before == {i \in 1..Len(sorted) : RatLt(e.iep, sorted[i].iep)}
        k == Cardinality(before)
    IN  SubSeq(sorted, 1, k) \o <<e>> \o SubSeq(sorted, k + 1, Len(sorted))

\* one step of a stable sort by descending iep: e goes after every entry
\* whose iep is at least its own
InsertDesc(sorted, e) ==
    LET before == {i \in 1..Len(sorted) : RatLeq(e.iep, sorted[i].iep)}
        k == Cardinality(before)
    IN  SubSeq(sorted, 1, k) \o <<e>> \o SubSeq(sorted, k + 1, Len(sorted))

RECURSIVE SortDesc(_)
\* list.sort(key=iep, reverse=True): stable, equal keys keep their order
SortDesc(s) ==
    IF s = <<>> THEN <<>>
    ELSE InsertDesc(SortDesc(SubSeq(s, 1, Len(s) - 1)), s[Len(s)])

\* a variant of the truncation that keeps the end of the list, s[-n:] for
\* a positive n
SliceToEnd(s, n) ==
    IF n > 0 THEN SubSeq(s, IF n < Len(s) THEN Len(s) - n + 1 ELSE 1, Len(s))
    ELSE SubSeq(s, 1, IF Len(s) + n > 0 THEN Len(s) + n ELSE 0)

\* the Python slice s[:n]
SliceTo(s, n) ==
    IF n >= 0 THEN SubSeq(s, 1, IF n < Len(s) THEN n ELSE Len(s))
    ELSE SubSeq(s, 1, IF Len(s) + n > 0 THEN Len(s) + n ELSE 0)

\* lines 358-359: the 1-based rank of every returned entry
NumberRanks(top) == [i \in 1..Len(top) |-> [top[i] EXCEPT !.rank = i]]

rank_bulls_for_female(female_data, bull_list, n, max_inb, weights) ==
    LET passes(e) == Eligible(e, max_inb)
    IN  NumberRanks(SliceTo(SortDesc(SelectSeq(
            [i \in 1..Len(bull_list) |-> RankEntry(female_data, bull_list[i], weights)],
            passes)), n))

(***************************************************************************)
(* Compatibility wrapper: GeneticCalculator.calculate_compatibility_score  *)
(***************************************************************************)
\* a variant of the wrapper that computes the score itself, from the base
\* score and the adjustment it reports
CompatibilityRecordRescored(iep_result) ==
    [score |-> RatSub(RatAdd(RatInt(50), RatMul(iep_result.base_score, RatInt(15))),
                      RatMul(iep_result.inbreeding_penalty, RatInt(15))),
     base_score |-> RatAdd(RatInt(50), RatMul(iep_result.base_score, RatInt(15))),
     adjustments |->
        [inbreeding_penalty |->
            IF RatLt(RatInt(0), iep_result.inbreeding_penalty)
            THEN RatMul(RatNeg(iep_result.inbreeding_penalty), RatInt(15))
            ELSE RatInt(0)],
     contributions |->
        [c \in DOMAIN iep_result.categories |->
            [weight |-> iep_result.categories[c].weight,
             contribution |-> iep_result.categories[c].contribution]],
     inbreeding |-> iep_result.inbreeding,
     grade |-> iep_result.grade,
     reliability |-> iep_result.reliability]

\* lines 366-375: the score record built from the economic index
CompatibilityRecord(iep_result) ==
    [score |-> iep_result.iep_normalized,
     base_score |-> RatAdd(RatInt(50), RatMul(iep_result.base_score, RatInt(15))),
     adjustments |->
        [inbreeding_penalty |->
            IF RatLt(RatInt(0), iep_result.inbreeding_penalty)
            THEN RatMul(RatNeg(iep_result.inbreeding_penalty), RatInt(15))
            ELSE RatInt(0)],
     contributions |->
        [c \in DOMAIN iep_result.categories |->
            [weight |-> iep_result.categories[c].weight,
             contribution |-> iep_result.categories[c].contribution]],
     inbreeding |-> iep_result.inbreeding,
     grade |-> iep_result.grade,
     reliability |-> iep_result.reliability]

calculate_compatibility_score(female_data, bull_data, priorities) ==
    CompatibilityRecord(calculate_economic_index(female_data, bull_data, priorities))

\* rank_bulls_for_female raises OverflowError: line 338 does, for one bull
RankRaises(female_data, bull_list) ==
    \E i \in 1..Len(bull_list) : EconomicIndexRaises(female_data, bull_list[i])

\* the outcome of an engine call that raised
Raised == [error |-> "OverflowError"]

(***************************************************************************)
(* Batch matching: MatchingService.match_batch                             *)
(***************************************************************************)
\* lines 140-153: the entry reported for one ranked bull
FormatBull(item) ==
    [rank |-> item.rank, bull |-> item.bull, score |-> item.iep,
     grade |-> item.grade,
     inbreeding |-> [expected_inbreeding |-> item.inbreeding,
                     risk_level |-> item.inbreeding_risk],
     reliability |-> item.reliability, categories |-> item.categories]

\* lines 140-164: the result entry of one dam from her ranking
BatchRecord(female_data, top_bulls) ==
    [female |-> [id |-> Get(female_data.top, "id")],
     top_bulls |-> [i \in 1..Len(top_bulls) |-> FormatBull(top_bulls[i])]]

\* lines 125-137: the ranking of the available bulls for one dam
BatchEntry(female_data, bull_list, n, max_inb, priorities) ==
    BatchRecord(female_data,
                rank_bulls_for_female(female_data, bull_list, n, max_inb, priorities))

\* a variant of the batch in which a dam's first choice is taken: each dam
\* is ranked against the bulls that no earlier dam has at the top of her list
match_batch_first_choice_taken(female_list, bull_list, priorities, max_inb, n) ==
    IF bull_list = <<>>
    THEN [error |-> "ValueError", results |-> <<>>]
    ELSE IF \E i \in 1..Len(female_list) : RankRaises(female_list[i], bull_list)
    THEN [error |-> "OverflowError", results |-> <<>>]
    ELSE [error |-> "",
          results |-> [i \in 1..Len(female_list) |->
              LET taken == {rank_bulls_for_female(female_list[j], bull_list, 1,
                                                  max_inb, priorities) : j \in 1..(i - 1)}
                  free(b) == \A t \in taken : t = <<>> \/ t[1].bull.id # Get(b.top, "id")
              IN  BatchEntry(female_list[i], SelectSeq(bull_list, free), n, max_inb,
                             priorities)]]

\* the dams are the rows the query returned for female_ids, the bulls the
\* available bulls; with no bull the method raises ValueError.  The loop of
\* lines 124-164 has no handler: what rank_bulls_for_female raises for one
\* dam leaves the method, and the results gathered so far with it.
match_batch(female_list, bull_list, priorities, max_inb, n) ==
    IF bull_list = <<>>
    THEN [error |-> "ValueError", results |-> <<>>]
    ELSE IF \E i \in 1..Len(female_list) : RankRaises(female_list[i], bull_list)
    THEN [error |-> "OverflowError", results |-> <<>>]
    ELSE [error |-> "",
          results |-> [i \in 1..Len(female_list) |->
                          BatchEntry(female_list[i], bull_list, n, max_inb, priorities)]]

\* the empty dict: a request without priorities, a record without fields
EmptyMap == [k \in {} |-> None]

(***************************************************************************)
(* Single-pair evaluation: MatchingService.match_single                    *)
(***************************************************************************)
\* a variant of the status decision that skips the haplotype check
RecommendationStatusNoHaplotypes(score, inb, haplotype_risks) ==
    IF RatLeq(RatInt(75), score) /\ RatLeq(inb, RatInt(6)) THEN "highly_recommended"
    ELSE IF RatLeq(RatInt(60), score) /\ RatLeq(inb, RatInt(6)) THEN "recommended"
    ELSE IF RatLeq(RatInt(50), score) \/ RatLeq(inb, RatInt(8)) THEN "acceptable"
    ELSE "not_recommended"

\* lines 460-482: critical_risks is non-empty when a record is critical
RecommendationStatus(score, inb, haplotype_risks) ==
    IF HasCritical(haplotype_risks) THEN "not_recommended"
    ELSE IF RatLeq(RatInt(75), score) /\ RatLeq(inb, RatInt(6)) THEN "highly_recommended"
    ELSE IF RatLeq(RatInt(60), score) /\ RatLeq(inb, RatInt(6)) THEN "recommended"
    ELSE IF RatLeq(RatInt(50), score) \/ RatLeq(inb, RatInt(8)) THEN "acceptable"
    ELSE "not_recommended"

\* lines 462-482: the colour that goes with the status and its reason
StatusColor(status) ==
    IF status = "highly_recommended" THEN "green"
    ELSE IF status = "recommended" THEN "blue"
    ELSE IF status = "acceptable" THEN "yellow"
    ELSE "red"

\* lines 485-503: the positive points, each named by what it reports
Positives(score, inb, haplotype_risks) ==
    (IF RatLeq(RatInt(70), score) THEN <<"iep_high">>
     ELSE IF RatLeq(RatInt(55), score) THEN <<"iep_good">> ELSE <<>>)
    \o (IF RatLeq(inb, RatInt(5)) THEN <<"inbreeding_low">>
        ELSE IF RatLeq(inb, Rat(625, 100)) THEN <<"inbreeding_ideal">> ELSE <<>>)
    \o (IF haplotype_risks = <<>> THEN <<"no_haplotype_risk">>
        ELSE IF ~HasCritical(haplotype_risks)
                /\ \E i \in 1..Len(haplotype_risks) : haplotype_risks[i].severity = "low"
        THEN <<"low_haplotype_risk">> ELSE <<>>)

IsCritical(r) == r.severity = "critical"

\* lines 505-514: the negative points, each named by what it reports, then
\* the marker of every critical record
Negatives(score, inb, haplotype_risks) ==
    (IF RatLt(score, RatInt(50)) THEN <<"iep_below_average">> ELSE <<>>)
    \o (IF RatLt(Rat(625, 100), inb) THEN <<"inbreeding_above_ideal">> ELSE <<>>)
    \o (IF RatLt(RatInt(8), inb) THEN <<"inbreeding_depression">> ELSE <<>>)
    \o [i \in 1..Len(SelectSeq(haplotype_risks, IsCritical)) |->
           SelectSeq(haplotype_risks, IsCritical)[i].haplotype]

\* lines 516-524: the recommendation built from the decided status
RecommendationRecord(status, score, inb, haplotype_risks, grade, confidence) ==
    [status |-> status, color |-> StatusColor(status),
     positives |-> Positives(score, inb, haplotype_risks),
     negatives |-> Negatives(score, inb, haplotype_risks),
     grade |-> grade, confidence |-> confidence]

_generate_recommendation(compatibility, inbreeding) ==
    RecommendationRecord(
        RecommendationStatus(compatibility.score, inbreeding.expected_inbreeding,
                             inbreeding.haplotype_risks),
        compatibility.score, inbreeding.expected_inbreeding,
        inbreeding.haplotype_risks, compatibility.grade, compatibility.reliability)

\* lines 45-73: the analysis of the pair and the recommendation drawn from it
SingleRecord(pppv, inbreeding, compatibility) ==
    [error |-> "",
     analysis |-> [pppv |-> pppv, inbreeding |-> inbreeding,
                   compatibility |-> compatibility],
     recommendation |-> _generate_recommendation(compatibility, inbreeding)]

\* found tells whether both ids name a row; without one the method raises
\* ValueError.  The compatibility score is asked for without priorities.
match_single(found, female_data, bull_data) ==
    IF ~found
    THEN [error |-> "ValueError", analysis |-> <<>>, recommendation |-> <<>>]
    ELSE IF \/ PPPVRaises(female_data, bull_data, <<>>)
            \/ EconomicIndexRaises(female_data, bull_data)
    THEN [error |-> "OverflowError", analysis |-> <<>>, recommendation |-> <<>>]
    ELSE SingleRecord(calculate_pppv(female_data, bull_data, <<>>),
                      calculate_inbreeding(female_data, bull_data),
                      calculate_compatibility_score(female_data, bull_data, EmptyMap))

(***************************************************************************)

(* The records the operations are applied to                               *)
(***************************************************************************)
\* a map with key k when v is a value, without it when v is None
Opt(k, v) == IF v = None THEN EmptyMap ELSE (k :> v)

Animal(top, main_indices, genetic_data, reliabilities, haplotypes) ==
    [top |-> top, main_indices |-> main_indices, genetic_data |-> genetic_data,
     reliabilities |-> reliabilities, haplotypes |-> haplotypes]

F(n, d) == Num(Rat(n, d))

\* a dam as _prepare_female_data builds it from its columns
Dam(id, milk, ginb, hh1) ==
    Animal(("id" :> F(id, 1)) @@ Opt("milk", milk) @@
           Opt("genomic_inbreeding", ginb) @@ Opt("hh1", hh1),
           EmptyMap, EmptyMap, EmptyMap, EmptyMap)

\* a bull as _prepare_bull_data builds it from its columns
Bull(id, milk, gfi, hh1) ==
    Animal(("id" :> F(id, 1)) @@ ("code" :> Str("B")) @@
           Opt("milk", milk) @@ Opt("gfi", gfi) @@ Opt("hh1", hh1),
           EmptyMap, EmptyMap, EmptyMap, EmptyMap)

\* the dams of the herd: without and with a genomic inbreeding figure, free
\* of and carrying HH1
HerdDams ==
    {Dam(1, F(500, 1), ginb, hh1) :
        ginb \in {None, F(4, 1)}, hh1 \in {None, Str("C")}}

\* the bulls on offer.  Bulls 1 and 3 have the same figures and so the same
\* score; bull 2 scores higher but has a high future inbreeding (7.2 %
\* expected on a dam without a genomic figure, 5.2 % on a dam with one);
\* bull 4 carries HH1.
AvailableBulls ==
    {Bull(1, F(1000, 1), F(4, 1), None),
     Bull(2, F(1500, 1), F(84, 10), None),
     Bull(3, F(1000, 1), F(4, 1), None),
     Bull(4, F(-200, 1), F(2, 1), Str("Carrier"))}

MaxBulls == 3

MaxTopN == 2

\* the sequences without repetition of at most n elements of S
RECURSIVE Arrangements(_, _)
Arrangements(S, n) ==
    IF n = 0 THEN {<<>>}
    ELSE LET shorter == Arrangements(S, n - 1)
         IN  shorter \cup {Append(s, x) : s \in shorter, x \in S}

NoRepeat(s) == \A i, j \in 1..Len(s) : i # j => s[i] # s[j]

CandidateLists == {s \in Arrangements(AvailableBulls, MaxBulls) : NoRepeat(s)}

\* category weights a request may carry; the empty map is "no priorities"
PriorityChoices ==
    {EmptyMap,
     [production |-> Rat(50, 1), health |-> Rat(-1, 1), unknown |-> Rat(1, 1)]}

\* the traits looked up on their own: one with an alias list, one without,
\* and one no index weight and no default list names
LookupRequests == {"scs", "milk", "stature"}

\* requests for calculate_pppv: the default list or a single target trait
IndexRequests == {<<>>, <<"milk">>, <<"scs", "milk">>}

(***************************************************************************)
(* Records for the inbreeding analysis: genomic figures, a pedigree link   *)
(* and haplotype statuses stored in the three places the lookup reads      *)
(***************************************************************************)
HapProfile(top, genetic_data, haplotypes) ==
    [top |-> top, genetic_data |-> genetic_data, haplotypes |-> haplotypes]

HapProfiles ==
    {HapProfile(EmptyMap, EmptyMap, EmptyMap),
     HapProfile(("hh1" :> Str("C")) @@ ("hh2" :> F(1, 1)), EmptyMap, EmptyMap),
     HapProfile(("hh1" :> Str("x")) @@ ("hh3" :> F(0, 1)),
                ("HH1" :> Str("Carrier")), EmptyMap),
     HapProfile(("hh1" :> Str("T")) @@ ("HH2" :> Str("carrier")),
                ("hh2" :> Str("F")), EmptyMap),
     HapProfile(EmptyMap, ("hh6" :> F(1, 1)),
                ("hh1" :> Str("tested free")) @@ ("HH6" :> Str("c")))}

InbreedingDams ==
    {Animal(("id" :> F(1, 1)) @@ Opt("genomic_inbreeding", ginb) @@
            Opt("sire_naab", sire) @@ prof.top,
            EmptyMap, prof.genetic_data, EmptyMap, prof.haplotypes) :
        ginb \in {None, F(0, 1), F(801, 100), F(16, 1)},
        sire \in {None, Str("7HO1")},
        prof \in HapProfiles}

InbreedingBulls ==
    {Animal(("id" :> F(1, 1)) @@ ("naab_code" :> Str("7HO1")) @@
            Opt("gfi", gfi) @@ prof.top,
            EmptyMap, prof.genetic_data, EmptyMap, prof.haplotypes) :
        gfi \in {None, F(0, 1), F(12, 1), F(20, 1)},
        prof \in HapProfiles}

(***************************************************************************)
(* Records for the PPPV: values with two and three decimals, a value held  *)
(* as a string, explicit and defaulted reliabilities, a daughters count    *)
(***************************************************************************)
PPPVDams ==
    {Animal(("id" :> F(1, 1)) @@ Opt("milk", milk) @@ Opt("milk_rel", rel) @@
            Opt("scs", scs),
            EmptyMap, EmptyMap, EmptyMap, EmptyMap) :
        milk \in {None, F(1004, 1000), F(1, 1), F(500, 1)},
        rel \in {None, F(0, 1), F(60, 1)},
        scs \in {None, F(285, 100)}}

PPPVBulls ==
    {Animal(("id" :> F(1, 1)) @@ Opt("milk", milk) @@ Opt("milk_rel", rel) @@
            Opt("daughters", daughters) @@ ("scs" :> F(290, 100)),
            EmptyMap, EmptyMap, EmptyMap, EmptyMap) :
        milk \in {None, F(1007, 1000), F(101, 100), Str("1500")},
        rel \in {None, F(0, 1), F(60, 1)},
        daughters \in {None, F(1000, 1)}}

(***************************************************************************)
(* Records with missing data: every subset of a few fields, the empty      *)
(* record included, and a value that float() rejects                       *)
(***************************************************************************)
EmptyRecord == Animal(EmptyMap, EmptyMap, EmptyMap, EmptyMap, EmptyMap)

SparseDams ==
    {Animal(Opt("milk", milk) @@ Opt("scs", scs) @@ Opt("genomic_inbreeding", ginb),
            EmptyMap, EmptyMap, EmptyMap, EmptyMap) :
        milk \in {None, F(500, 1), Str("n/a")},
        scs \in {None, F(285, 100)},
        ginb \in {None, F(4, 1)}}

SparseBulls ==
    {Animal(Opt("milk", milk) @@ Opt("scs", scs) @@ Opt("gfi", gfi),
            EmptyMap, EmptyMap, EmptyMap, EmptyMap) :
        milk \in {None, F(1500, 1)},
        scs \in {None, F(290, 100), Str("n/a")},
        gfi \in {None, F(4, 1)}}

(***************************************************************************)
(* Records for the score bands: bulls whose milk figure puts the score in  *)
(* every grade band and next to the band edges, with a low, a raised and a  *)
(* high future inbreeding, free of and carrying HH1; the last milk figure  *)
(* keeps the score above 50 under the penalty of an inbreeding above 8 %   *)
(***************************************************************************)
GradeDams ==
    {Dam(1, F(500, 1), ginb, hh1) :
        ginb \in {None, F(4, 1), F(16, 1)}, hh1 \in {None, Str("C")}}

GradeBulls ==
    {Bull(1, F(milk, 1), gfi, hh1) :
        milk \in {-12000, -2890, 1000, 3850, 12000, 17335, 20000, 24075, 60000},
        gfi \in {F(4, 1), F(84, 10), F(12, 1)},
        hh1 \in {None, Str("Carrier")}}

(***************************************************************************)
(* Records for the lookup of one trait: candidates under the key, its      *)
(* upper-case form and its aliases, in the top level and in both sub-maps, *)
(* holding numbers, strings float() rejects, strings it turns into inf and *)
(* nan, and an oversized int                                               *)
(***************************************************************************)
LookupDams ==
    {Animal(("id" :> F(1, 1)) @@ ("milk" :> F(500, 1)) @@
            Opt("stature", top) @@ Opt("STATURE", upper),
            Opt("stature", main), Opt("stature", gen), EmptyMap, EmptyMap) :
        top \in {None, F(15, 10), Str("n/a"), Str("nan")},
        upper \in {None, Str("inf")},
        main \in {None, F(1, 1), Big},
        gen \in {None, F(2, 1), Str("7.5")}}

LookupBulls ==
    {Animal(("id" :> F(1, 1)) @@ ("milk" :> F(1000, 1)) @@
            Opt("scs", scs) @@ Opt("SCS", upper),
            EmptyMap, Opt("SOMATIC CELL SCORE", gen), EmptyMap, EmptyMap) :
        scs \in {None, Str("n/a")},
        upper \in {None, F(290, 100)},
        gen \in {None, F(3, 1)}}

(***************************************************************************)
(* Records for a batch of two dams: each with or without a milk column and *)
(* with or without a milk figure in the JSON document that is an int too   *)
(* large for a float                                                       *)
(***************************************************************************)
BatchDam(id, milk, genetic_milk) ==
    Animal(("id" :> F(id, 1)) @@ ("genomic_inbreeding" :> F(4, 1)) @@
           Opt("milk", milk),
           EmptyMap, Opt("milk", genetic_milk), EmptyMap, EmptyMap)

BatchHerds ==
    {<<BatchDam(1, m1, g1), BatchDam(2, m2, g2)>> :
        m1 \in {None, F(500, 1)}, g1 \in {None, Big},
        m2 \in {None, F(500, 1)}, g2 \in {None, Big}}

MaxBatchBulls == 2

BatchBulls == {s \in Arrangements(AvailableBulls, MaxBatchBulls) : NoRepeat(s)}

(***************************************************************************)
(* Records for the pedigree estimate: a dam with her sire by NAAB code     *)
(* (absent, empty or given) or by registration number and her maternal     *)
(* grandsire, a bull with his own code, his sire and his maternal          *)
(* grandsire, each with or without a genomic figure                        *)
(***************************************************************************)
PedigreeDams ==
    {Animal(("id" :> F(1, 1)) @@ Opt("sire_naab", sire) @@ Opt("sire_reg", reg) @@
            Opt("mgs_naab", mgs) @@ Opt("genomic_inbreeding", ginb),
            EmptyMap, EmptyMap, EmptyMap, EmptyMap) :
        sire \in {None, Str(""), Str("7HO1"), Str("7HO2")},
        reg \in {None, Str("7HO1")},
        mgs \in {None, Str("7HO1"), Str("7HO3")},
        ginb \in {None, F(4, 1)}}

PedigreeBulls ==
    {Animal(("id" :> F(1, 1)) @@ Opt("naab_code", code) @@ Opt("sire_naab", sire) @@
            Opt("mgs_naab", mgs) @@ Opt("gfi", gfi),
            EmptyMap, EmptyMap, EmptyMap, EmptyMap) :
        code \in {None, Str("7HO1")},
        sire \in {None, Str("7HO2")},
        mgs \in {None, Str("7HO3")},
        gfi \in {None, F(4, 1)}}

(***************************************************************************)
(* Records for the economic index: a trait where higher is better and one  *)
(* where lower is better, each present or absent, and genomic figures that *)
(* put the expected inbreeding below, at and above the ideal level         *)
(***************************************************************************)
IndexDams ==
    {Animal(("id" :> F(1, 1)) @@ Opt("milk", milk) @@ Opt("scs", scs) @@
            Opt("genomic_inbreeding", ginb),
            EmptyMap, EmptyMap, EmptyMap, EmptyMap) :
        milk \in {None, F(500, 1)},
        scs \in {None, F(285, 100)},
        ginb \in {None, F(1, 1), F(4, 1), F(16, 1)}}

IndexBulls ==
    {Animal(("id" :> F(1, 1)) @@ ("code" :> Str("B")) @@ Opt("milk", milk) @@
            Opt("scs", scs) @@ Opt("gfi", gfi),
            EmptyMap, EmptyMap, EmptyMap, EmptyMap) :
        milk \in {None, F(1500, 1)},
        scs \in {None, F(310, 100)},
        gfi \in {None, F(4, 1), F(12, 1)}}

(***************************************************************************)
(* Records for the reliability lookup: an explicit milk reliability in the *)
(* top level, in the 'reliabilities' map and in 'genetic_data', in and out *)
(* of range, unparseable, not finite and oversized, and for a bull a       *)
(* progeny count on each side of every step                                *)
(***************************************************************************)
ReliabilityDams ==
    {Animal(("id" :> F(1, 1)) @@ ("milk" :> F(500, 1)) @@ Opt("milk_rel", rel),
            EmptyMap, genetic_data, reliabilities, EmptyMap) :
        rel \in {None, F(60, 1), F(150, 1), Str("n/a"), Big},
        reliabilities \in {EmptyMap,
                           ("milk_rel" :> F(0, 1)) @@ ("milk" :> F(80, 1)),
                           ("milk_rel" :> F(150, 1)) @@ ("milk" :> F(80, 1)),
                           ("milk" :> F(70, 1))},
        genetic_data \in {EmptyMap,
                          ("MILK_REL" :> F(90, 1)),
                          ("milk_rel" :> Str("nan")) @@ ("milk REL" :> F(65, 1))}}

ReliabilityBulls ==
    {Animal(("id" :> F(1, 1)) @@ ("milk" :> F(1500, 1)) @@ Opt("milk_rel", rel) @@
            Opt("daughters", daughters) @@ Opt("num_daughters", num),
            EmptyMap, EmptyMap, EmptyMap, EmptyMap) :
        rel \in {None, F(100, 1), F(101, 1)},
        daughters \in {None, Str("1500"), Str("n/a")}
                      \cup {F(n, 1) : n \in {0, 1, 49, 50, 99, 100, 499, 500, 999, 1000}},
        num \in {None, F(60, 1)}}

\* indices is the trait list of a calculate_pppv request, empty otherwise
NoResult == [female |-> 0, bull |-> 0, indices |-> <<>>, value |-> <<>>]

TypeOK ==
    /\ op \in {"idle", "calculate_pppv", "calculate_inbreeding",
               "calculate_economic_index", "calculate_compatibility_score",
               "rank_bulls_for_female", "match_batch", "match_single",
               "_get_index_value"}
    /\ top_n \in -1..MaxTopN

(***************************************************************************)
(* The state machine.  The calculator is a module-level singleton that is  *)
(* called synchronously: from the idle state one operation is applied to   *)
(* the records and arguments of the request and leaves its result, and     *)
(* Respond hands the result over and makes the calculator idle again.      *)
(***************************************************************************)
InitWith(DamLists, BullLists, TopNs, MaxInbreedings, Priorities) ==
    /\ females \in DamLists
    /\ bulls \in BullLists
    /\ top_n \in TopNs
    /\ max_inbreeding \in MaxInbreedings
    /\ custom_weights \in Priorities
    /\ params = GeneticParameters
    /\ population_stats = PopulationStats
    /\ op = "idle"
    /\ result = NoResult

\* requests for one dam of the herd: a ranking of a list of the bulls on
\* offer under the batch default max_inbreeding 6.0 (routes.py 531) for every
\* top_n, or one bull under the calculator default 8.0 (genetics.py 333) with
\* or without category priorities
Init ==
    \/ InitWith({<<d>> : d \in HerdDams}, CandidateLists, -1..MaxTopN,
                {Rat(6, 1)}, {EmptyMap})
    \/ InitWith({<<d>> : d \in HerdDams}, {<<b>> : b \in AvailableBulls}, {MaxTopN},
                {Rat(8, 1)}, PriorityChoices)

Frame == UNCHANGED <<females, bulls, top_n, max_inbreeding, custom_weights,
                     params, population_stats>>

CalculatePPPV(d, b, indices) ==
    /\ op = "idle"
    /\ op' = "calculate_pppv"
    /\ result' = [female |-> d, bull |-> b, indices |-> indices,
                  value |-> IF PPPVRaises(females[d], bulls[b], indices) THEN Raised
                            ELSE calculate_pppv(females[d], bulls[b], indices)]
    /\ Frame

CalculateInbreeding(d, b) ==
    /\ op = "idle"
    /\ op' = "calculate_inbreeding"
    /\ result' = [female |-> d, bull |-> b, indices |-> <<>>,
                  value |-> IF InbreedingRaises(females[d], bulls[b]) THEN Raised
                            ELSE calculate_inbreeding(females[d], bulls[b])]
    /\ Frame

CalculateEconomicIndex(d, b) ==
    /\ op = "idle"
    /\ op' = "calculate_economic_index"
    /\ result' = [female |-> d, bull |-> b, indices |-> <<>>,
                  value |-> IF EconomicIndexRaises(females[d], bulls[b]) THEN Raised
                            ELSE calculate_economic_index(females[d], bulls[b],
                                                          custom_weights)]
    /\ Frame

CalculateCompatibilityScore(d, b) ==
    /\ op = "idle"
    /\ op' = "calculate_compatibility_score"
    /\ result' = [female |-> d, bull |-> b, indices |-> <<>>,
                  value |-> IF EconomicIndexRaises(females[d], bulls[b]) THEN Raised
                            ELSE calculate_compatibility_score(females[d], bulls[b],
                                                               custom_weights)]
    /\ Frame

\* a variant of the ranking that filters the caller's list in place: the
\* bulls that fail a filter are removed from the shared list
RankBullsForFemaleInPlace(d) ==
    /\ op = "idle"
    /\ op' = "rank_bulls_for_female"
    /\ result' = [female |-> d, bull |-> 0, indices |-> <<>>,
                  value |-> IF RankRaises(females[d], bulls) THEN Raised
                            ELSE rank_bulls_for_female(females[d], bulls, top_n,
                                                       max_inbreeding, custom_weights)]
    /\ bulls' = IF RankRaises(females[d], bulls) THEN bulls
                ELSE LET kept(b) == Eligible(RankEntry(females[d], b, custom_weights),
                                             max_inbreeding)
                     IN  SelectSeq(bulls, kept)
    /\ UNCHANGED <<females, top_n, max_inbreeding, custom_weights, params,
                   population_stats>>

RankBullsForFemale(d) ==
    /\ op = "idle"
    /\ op' = "rank_bulls_for_female"
    /\ result' = [female |-> d, bull |-> 0, indices |-> <<>>,
                  value |-> IF RankRaises(females[d], bulls) THEN Raised
                            ELSE rank_bulls_for_female(females[d], bulls, top_n,
                                                       max_inbreeding, custom_weights)]
    /\ Frame

MatchBatch ==
    /\ op = "idle"
    /\ op' = "match_batch"
    /\ result' = [female |-> 0, bull |-> 0, indices |-> <<>>,
                  value |-> match_batch(females, bulls, custom_weights,
                                        max_inbreeding, top_n)]
    /\ Frame

\* the lookup of one trait in the record of dam d, or of bull b when d = 0
GetIndexValue(d, b, index) ==
    /\ op = "idle"
    /\ op' = "_get_index_value"
    /\ result' = [female |-> d, bull |-> b, indices |-> <<index>>,
                  value |-> IF IndexValueRaises(IF d # 0 THEN females[d] ELSE bulls[b],
                                                index)
                            THEN Raised
                            ELSE _get_index_value(IF d # 0 THEN females[d] ELSE bulls[b],
                                                  index)]
    /\ Frame

\* d = 0 or b = 0 is an id the query finds no row for
MatchSingle(d, b) ==
    /\ op = "idle"
    /\ op' = "match_single"
    /\ result' = [female |-> d, bull |-> b, indices |-> <<>>,
                  value |-> match_single(d # 0 /\ b # 0,
                                         females[IF d = 0 THEN 1 ELSE d],
                                         bulls[IF b = 0 THEN 1 ELSE b])]
    /\ Frame

Respond ==
    /\ op # "idle"
    /\ op' = "idle"
    /\ result' = NoResult
    /\ Frame

Next ==
    \/ \E d \in 1..Len(females), b \in 1..Len(bulls), indices \in IndexRequests :
            CalculatePPPV(d, b, indices)
    \/ \E d \in 1..Len(females), b \in 1..Len(bulls) : CalculateInbreeding(d, b)
    \/ \E d \in 1..Len(females), b \in 1..Len(bulls) : CalculateEconomicIndex(d, b)
    \/ \E d \in 1..Len(females), b \in 1..Len(bulls) : CalculateCompatibilityScore(d, b)
    \/ \E d \in 1..Len(females) : RankBullsForFemale(d)
    \/ MatchBatch
    \/ \E d \in 0..Len(females), b \in 0..Len(bulls) : MatchSingle(d, b)
    \/ \E d \in 1..Len(females), index \in LookupRequests : GetIndexValue(d, 0, index)
    \/ \E b \in 1..Len(bulls), index \in LookupRequests : GetIndexValue(0, b, index)
    \/ Respond

Spec == Init /\ [][Next]_vars

\* single-pair inbreeding requests
InitInbreeding ==
    InitWith({<<d>> : d \in InbreedingDams}, {<<b>> : b \in InbreedingBulls},
             {MaxTopN}, {Rat(8, 1)}, {EmptyMap})

SpecInbreeding == InitInbreeding /\ [][Next]_vars

\* single-pair PPPV requests
InitPPPV ==
    InitWith({<<d>> : d \in PPPVDams}, {<<b>> : b \in PPPVBulls},
             {MaxTopN}, {Rat(8, 1)}, {EmptyMap})

SpecPPPV == InitPPPV /\ [][Next]_vars

\* single-pair requests on records with missing data
InitGrades ==
    InitWith({<<d>> : d \in GradeDams}, {<<b>> : b \in GradeBulls}, {MaxTopN},
             {Rat(8, 1)}, {EmptyMap})

InitLookup ==
    InitWith({<<d>> : d \in LookupDams}, {<<b>> : b \in LookupBulls}, {MaxTopN},
             {Rat(8, 1)}, {EmptyMap})

\* a batch request under the defaults of the route: max_inbreeding 6.0
InitBatch ==
    InitWith(BatchHerds, BatchBulls, {MaxTopN}, {Rat(6, 1)}, {EmptyMap})

InitPedigree ==
    InitWith({<<d>> : d \in PedigreeDams}, {<<b>> : b \in PedigreeBulls}, {MaxTopN},
             {Rat(8, 1)}, {EmptyMap})

InitIndex ==
    InitWith({<<d>> : d \in IndexDams}, {<<b>> : b \in IndexBulls}, {MaxTopN},
             {Rat(8, 1)}, PriorityChoices)

\* every dam with one bull, and every bull with one dam
InitReliability ==
    \/ InitWith({<<d>> : d \in ReliabilityDams},
                {<<CHOOSE b \in ReliabilityBulls : "milk_rel" \notin DOMAIN b.top>>},
                {MaxTopN}, {Rat(8, 1)}, {EmptyMap})
    \/ InitWith({<<CHOOSE d \in ReliabilityDams : "milk_rel" \notin DOMAIN d.top>>},
                {<<b>> : b \in ReliabilityBulls}, {MaxTopN}, {Rat(8, 1)}, {EmptyMap})

InitSparse ==
    InitWith({<<d>> : d \in SparseDams}, {<<b>> : b \in SparseBulls},
             {MaxTopN}, {Rat(8, 1)}, {EmptyMap})

SpecSparse == InitSparse /\ [][Next]_vars

SpecGrades == InitGrades /\ [][Next]_vars

SpecLookup == InitLookup /\ [][Next]_vars

SpecBatch == InitBatch /\ [][Next]_vars

SpecPedigree == InitPedigree /\ [][Next]_vars

SpecIndex == InitIndex /\ [][Next]_vars

SpecReliability == InitReliability /\ [][Next]_vars

(***************************************************************************)
(* Properties                                                              *)
(***************************************************************************)
Value == result.value

Ranked == op = "rank_bulls_for_female"

\* the records of one call on a single pair
PairDam == females[result.female]

PairBull == bulls[result.bull]

\* the position in the input candidate list of the bull of a ranking entry
PosOf(entry) == CHOOSE i \in 1..Len(bulls) : Get(bulls[i].top, "id") = entry.bull.id

NoCriticalRecord(risks) == \A k \in 1..Len(risks) : risks[k].severity # "critical"

\* C1: every entry returned by rank_bulls_for_female (and so every bull that
\* match_batch reports for a dam) has an expected inbreeding that is at most
\* max_inbreeding, and its inbreeding analysis holds no haplotype record of
\* severity critical.
C1_RankedEntriesPassFilters ==
    /\ Ranked =>
          \A i \in 1..Len(Value) :
              /\ RatLeq(Value[i].inbreeding, max_inbreeding)
              /\ RatLeq(Value[i].full_analysis.inbreeding.expected_inbreeding, max_inbreeding)
              /\ NoCriticalRecord(Value[i].full_analysis.inbreeding.haplotype_risks)
    /\ op = "match_batch" =>
          \A d \in 1..Len(Value.results) :
              \A i \in 1..Len(Value.results[d].top_bulls) :
                  RatLeq(Value.results[d].top_bulls[i].inbreeding.expected_inbreeding,
                         max_inbreeding)

\* a ranking with max_inbreeding 6.0 that returned a bull and left out both a
\* candidate whose expected inbreeding is 7.2 and a candidate with a critical
\* haplotype record
C1_Witness ==
    /\ Ranked
    /\ max_inbreeding = Rat(6, 1)
    /\ Len(Value) >= 1
    /\ \E b \in 1..Len(bulls) :
          /\ calculate_inbreeding(PairDam, bulls[b]).expected_inbreeding = Rat(72, 10)
          /\ \A i \in 1..Len(Value) : PosOf(Value[i]) # b
    /\ \E b \in 1..Len(bulls) :
          /\ ~NoCriticalRecord(calculate_inbreeding(PairDam, bulls[b]).haplotype_risks)
          /\ \A i \in 1..Len(Value) : PosOf(Value[i]) # b

\* C2: whenever the haplotype_risks of the result of calculate_inbreeding hold
\* a record of severity critical, acceptable is false, whatever the expected
\* inbreeding (0 included) and whatever the estimation method.
C2_CriticalNeverAcceptable ==
    op = "calculate_inbreeding" =>
        (~NoCriticalRecord(Value.haplotype_risks) => Value.acceptable = FALSE)

\* both parents carry the same marker, the genomic estimate is 0 and the
\* mating is not acceptable
C2_Witness ==
    /\ op = "calculate_inbreeding"
    /\ ~NoCriticalRecord(Value.haplotype_risks)
    /\ Value.expected_inbreeding = RatInt(0)
    /\ Value.method = "genomic"
    /\ Value.acceptable = FALSE

\* C3: in every result of calculate_inbreeding, acceptable is true exactly
\* when the expected_inbreeding field of the result is at most the
\* acceptable threshold and no record of haplotype_risks is critical.
C3_AcceptableIffFieldWithinThreshold ==
    op = "calculate_inbreeding" =>
        (Value.acceptable <=>
            /\ RatLeq(Value.expected_inbreeding, params.inbreeding_acceptable)
            /\ NoCriticalRecord(Value.haplotype_risks))

\* the records of severity sev that a result holds for marker hap
RecordsFor(risks, hap, sev) ==
    {k \in 1..Len(risks) : risks[k].haplotype = Upper(hap) /\ risks[k].severity = sev}

\* C4: for each marker of the panel HH1..HH6 the haplotype analysis holds a
\* critical record exactly when dam and sire both resolve to Carrier, a low
\* record exactly when exactly one of them does, and no record when neither
\* does; a record reports the statuses as resolved, so a parent of unknown
\* status yields no critical record and is not reported as Free.
C4_HaplotypeSeverity ==
    op = "calculate_inbreeding" =>
        /\ \A k \in 1..Len(Value.haplotype_risks) :
              /\ Value.haplotype_risks[k].haplotype \in {"HH1", "HH2", "HH3", "HH4", "HH5", "HH6"}
              /\ Value.haplotype_risks[k].severity \in {"critical", "low"}
        /\ \A hap \in {"hh1", "hh2", "hh3", "hh4", "hh5", "hh6"} :
              LET cow == _get_haplotype_status(PairDam, hap)
                  bull == _get_haplotype_status(PairBull, hap)
                  carriers == (IF cow = "Carrier" THEN 1 ELSE 0) + (IF bull = "Carrier" THEN 1 ELSE 0)
                  critical == RecordsFor(Value.haplotype_risks, hap, "critical")
                  low == RecordsFor(Value.haplotype_risks, hap, "low")
              IN  /\ Cardinality(critical) = (IF carriers = 2 THEN 1 ELSE 0)
                  /\ Cardinality(low) = (IF carriers = 1 THEN 1 ELSE 0)
                  /\ \A k \in critical \cup low :
                        /\ Value.haplotype_risks[k].cow_status = cow
                        /\ Value.haplotype_risks[k].bull_status = bull
                  /\ (cow = "Unknown" \/ bull = "Unknown") => critical = {}

\* one analysis with a critical record (HH1, both carriers), a low record
\* whose other parent is Unknown (HH2) and a marker without a record although
\* one parent is Free and the other Unknown (HH3)
C4_Witness ==
    /\ op = "calculate_inbreeding"
    /\ RecordsFor(Value.haplotype_risks, "hh1", "critical") # {}
    /\ \E k \in RecordsFor(Value.haplotype_risks, "hh2", "low") :
          Value.haplotype_risks[k].bull_status = "Unknown"
    /\ _get_haplotype_status(PairDam, "hh3") = "Unknown"
    /\ _get_haplotype_status(PairBull, "hh3") = "Free"
    /\ RecordsFor(Value.haplotype_risks, "hh3", "low") = {}

InUnitRange(x) == RatLeq(RatInt(0), x) /\ RatLeq(x, RatInt(100))

\* C5: the normalized score of calculate_economic_index and the score of
\* calculate_compatibility_score lie in [0, 100], for all trait records and
\* all category weights.
C5_ScoreWithinRange ==
    /\ op = "calculate_economic_index" => InUnitRange(Value.iep_normalized)
    /\ op = "calculate_compatibility_score" => InUnitRange(Value.score)
    /\ Ranked => \A i \in 1..Len(Value) : InUnitRange(Value[i].iep)

\* an economic index whose raw score maps above 100 and is reported as 100
C5_Witness ==
    /\ op = "calculate_economic_index"
    /\ RatLt(RatInt(100), RatAdd(RatInt(50), RatMul(Value.iep_raw, RatInt(15))))
    /\ Value.iep_normalized = RatInt(100)

\* C6: the list returned by rank_bulls_for_female is in non-increasing order
\* of normalized score.
C6_RankingSortedDescending ==
    Ranked => \A i, j \in 1..Len(Value) : i < j => RatLeq(Value[j].iep, Value[i].iep)

\* a ranking of two bulls with different scores, the better one later in the
\* input list
C6_Witness ==
    /\ Ranked
    /\ Len(Value) >= 2
    /\ RatLt(Value[2].iep, Value[1].iep)
    /\ PosOf(Value[1]) > PosOf(Value[2])

\* C7: for every integer top_n the list returned by rank_bulls_for_female,
\* and the list match_batch reports for each dam, has at most top_n entries.
C7_LengthAtMostTopN ==
    /\ Ranked => Len(Value) <= top_n
    /\ op = "match_batch" =>
          \A d \in 1..Len(Value.results) : Len(Value.results[d].top_bulls) <= top_n

\* the permutations of a sequence of distinct elements
ListPermutations(s) ==
    {t \in Arrangements({s[i] : i \in 1..Len(s)}, Len(s)) :
        Len(t) = Len(s) /\ NoRepeat(t)}

Scores(ranking) == [i \in 1..Len(ranking) |-> ranking[i].iep]

\* C8 as claimed: candidates with equal normalized score are ordered by
\* candidate identity, so the ranking is the same for every permutation of
\* the input candidate list.
C8_TiesOrderedByIdentity ==
    Ranked =>
        /\ \A i, j \in 1..Len(Value) :
              (i < j /\ Value[i].iep = Value[j].iep)
                  => RatLt(Value[i].bull.id.n, Value[j].bull.id.n)
        /\ \A t \in ListPermutations(bulls) :
              rank_bulls_for_female(PairDam, t, top_n, max_inbreeding, custom_weights) = Value

\* C8 as amended: candidates with equal normalized score keep the order they
\* have in the input candidate list; the sequence of scores of the ranking,
\* not its membership and order, is the same for every permutation of the
\* input.
C8_TiesKeepInputOrder ==
    Ranked =>
        /\ \A i, j \in 1..Len(Value) :
              (i < j /\ Value[i].iep = Value[j].iep) => PosOf(Value[i]) < PosOf(Value[j])
        /\ \A t \in ListPermutations(bulls) :
              Scores(rank_bulls_for_female(PairDam, t, top_n, max_inbreeding, custom_weights))
                  = Scores(Value)

\* two bulls with the same score ranked in input order, the larger id first
C8_Witness ==
    /\ Ranked
    /\ \E i, j \in 1..Len(Value) :
          /\ i < j
          /\ Value[i].iep = Value[j].iep
          /\ RatLt(Value[j].bull.id.n, Value[i].bull.id.n)

\* the value a record resolves to for a trait
ParentValue(animal, index) == _get_index_value(animal, index).n

NonNegativeReliabilities(index) ==
    /\ RatLeq(RatInt(0), _get_reliability(PairDam, index, FALSE))
    /\ RatLeq(RatInt(0), _get_reliability(PairBull, index, TRUE))

\* C9 as claimed: for every trait of the PPPV result, both reliabilities
\* being non-negative, the reported pppv lies between the dam value and the
\* sire value.
C9_PPPVBetweenParents ==
    op = "calculate_pppv" =>
        \A index \in DOMAIN Value :
            NonNegativeReliabilities(index) =>
                LET cow == ParentValue(PairDam, index)
                    bull == ParentValue(PairBull, index)
                IN  /\ RatLeq(RatMin(cow, bull), Value[index].pppv)
                    /\ RatLeq(Value[index].pppv, RatMax(cow, bull))

\* C9 as amended: for every trait of the PPPV result, both reliabilities
\* being non-negative, the reported pppv, which is rounded to two decimals,
\* is less than 0.01 below the smaller and less than 0.01 above the larger
\* of the dam value and the sire value.
C9_PPPVBetweenParentsUpToRounding ==
    op = "calculate_pppv" =>
        \A index \in DOMAIN Value :
            NonNegativeReliabilities(index) =>
                LET cow == ParentValue(PairDam, index)
                    bull == ParentValue(PairBull, index)
                IN  /\ RatLt(RatSub(RatMin(cow, bull), Rat(1, 100)), Value[index].pppv)
                    /\ RatLt(Value[index].pppv, RatAdd(RatMax(cow, bull), Rat(1, 100)))

\* reliabilities 60 and 0: the weighted average is the dam value 1.004, and
\* the reported pppv 1.0 is below both the dam value and the sire value
C9_Witness ==
    /\ op = "calculate_pppv"
    /\ "milk" \in DOMAIN Value
    /\ NonNegativeReliabilities("milk")
    /\ _get_reliability(PairDam, "milk", FALSE) # _get_reliability(PairBull, "milk", TRUE)
    /\ ParentValue(PairDam, "milk") # ParentValue(PairBull, "milk")
    /\ RatLt(Value["milk"].pppv,
             RatMin(ParentValue(PairDam, "milk"), ParentValue(PairBull, "milk")))

\* the arithmetic mean of the values the two records resolve to
ParentMean(index) ==
    RatDiv(RatAdd(ParentValue(PairDam, index), ParentValue(PairBull, index)), RatInt(2))

EqualReliability(index) ==
    _get_reliability(PairDam, index, FALSE) = _get_reliability(PairBull, index, TRUE)

\* C10 as claimed: for every trait whose dam and sire reliabilities are equal
\* (both zero included) the pppv of the result equals the arithmetic mean of
\* the dam value and the sire value.
C10_EqualReliabilityGivesMean ==
    op = "calculate_pppv" =>
        \A index \in DOMAIN Value :
            EqualReliability(index) => Value[index].pppv = ParentMean(index)

\* C10 as amended: for every trait whose dam and sire reliabilities are equal
\* (both zero included) the pppv of the result is the arithmetic mean of the
\* dam value and the sire value rounded to two decimals: a multiple of 0.01
\* that is less than 0.01 away from the mean.
C10_EqualReliabilityGivesRoundedMean ==
    op = "calculate_pppv" =>
        \A index \in DOMAIN Value :
            EqualReliability(index) =>
                LET diff == RatSub(Value[index].pppv, ParentMean(index))
                IN  /\ 100 % Value[index].pppv[2] = 0
                    /\ RatLt(diff, Rat(1, 100))
                    /\ RatLt(RatNeg(diff), Rat(1, 100))

\* both reliabilities zero, two different parent values whose mean has more
\* than two decimals
C10_Witness ==
    /\ op = "calculate_pppv"
    /\ "milk" \in DOMAIN Value
    /\ _get_reliability(PairDam, "milk", FALSE) = RatInt(0)
    /\ _get_reliability(PairBull, "milk", TRUE) = RatInt(0)
    /\ Value["milk"].cow_value # Value["milk"].bull_value
    /\ Value["milk"].pppv # ParentMean("milk")

\* (sire_rel * sire_value + dam_rel * dam_value) / (sire_rel + dam_rel), and
\* the midpoint when the two reliabilities add up to zero
ReliabilityWeighted(index) ==
    LET dam_rel == _get_reliability(PairDam, index, FALSE)
        sire_rel == _get_reliability(PairBull, index, TRUE)
    IN  IF RatAdd(sire_rel, dam_rel) = RatInt(0)
        THEN ParentMean(index)
        ELSE RatDiv(RatAdd(RatMul(sire_rel, ParentValue(PairBull, index)),
                           RatMul(dam_rel, ParentValue(PairDam, index))),
                    RatAdd(sire_rel, dam_rel))

\* C11 as claimed: for every trait with both values present, the pppv of the
\* result is (sire_rel * sire_value + dam_rel * dam_value) / (sire_rel +
\* dam_rel) when the reliabilities add up to more than zero, and the
\* unweighted midpoint when both are zero.
C11_PPPVIsWeightedAverage ==
    op = "calculate_pppv" =>
        \A index \in DOMAIN Value : Value[index].pppv = ReliabilityWeighted(index)

\* C11 as amended: for every trait with both values present, the pppv of the
\* result is that weighted average (the midpoint when both reliabilities are
\* zero) rounded to two decimals: a multiple of 0.01 less than 0.01 away
\* from it.
C11_PPPVIsRoundedWeightedAverage ==
    op = "calculate_pppv" =>
        \A index \in DOMAIN Value :
            LET diff == RatSub(Value[index].pppv, ReliabilityWeighted(index))
            IN  /\ 100 % Value[index].pppv[2] = 0
                /\ RatLt(diff, Rat(1, 100))
                /\ RatLt(RatNeg(diff), Rat(1, 100))

\* dam milk 500 at the default reliability 55 and sire milk 1500 at the
\* reliability 99 of a bull with 1000 daughters: (99*1500 + 55*500)/154 is
\* reported as 1142.86
C11_Witness ==
    /\ op = "calculate_pppv"
    /\ "milk" \in DOMAIN Value
    /\ ParentValue(PairDam, "milk") = RatInt(500)
    /\ ParentValue(PairBull, "milk") = RatInt(1500)
    /\ Value["milk"].cow_reliability = RatInt(55)
    /\ Value["milk"].bull_reliability = RatInt(99)
    /\ Value["milk"].pppv = Rat(114286, 100)

\* a record without any field
BothEmpty == PairDam = EmptyRecord /\ PairBull = EmptyRecord

\* C13: when the dam record and the sire record are both empty,
\* calculate_inbreeding returns the fixed fallback estimate, the conservative
\* constant 8.5 with method 'estimated'.
C13_EmptyRecordsGiveFallbackEstimate ==
    (op = "calculate_inbreeding" /\ BothEmpty) =>
        /\ Value.method = "estimated"
        /\ Value.expected_inbreeding = Rat(85, 10)

\* C14: when the dam record and the sire record are both empty,
\* calculate_economic_index returns (it does not fail) a normalized score of
\* 50, every category with score and contribution 0 and no trait used, and
\* an inbreeding penalty of 0.
C14_EmptyRecordsGiveMidpoint ==
    (op = "calculate_economic_index" /\ BothEmpty) =>
        /\ Value.iep_normalized = RatInt(50)
        /\ Value.iep_raw = RatInt(0)
        /\ Value.inbreeding_penalty = RatInt(0)
        /\ \A c \in DOMAIN Value.categories :
              /\ Value.categories[c].score = RatInt(0)
              /\ Value.categories[c].contribution = RatInt(0)
              /\ Value.categories[c].indices = {}

\* the economic index of two empty records: all six categories are reported
C14_Witness ==
    /\ op = "calculate_economic_index"
    /\ BothEmpty
    /\ DOMAIN Value.categories = DOMAIN params.category_weights
    /\ Value.iep_normalized = RatInt(50)
    /\ Value.grade = "C Medio"

\* the traits a calculate_pppv request asks for
Requested ==
    LET idx == IF result.indices = <<>> THEN DefaultPPPVIndices ELSE result.indices
    IN  {idx[i] : i \in 1..Len(idx)}

Resolves(animal, index) == _get_index_value(animal, index) # None

\* C15: the result of calculate_pppv holds a requested trait exactly when
\* the dam record and the sire record both resolve to a value for it; a
\* trait missing on either side is skipped and leaves the entries of the
\* other traits as they are, and two empty records give an empty mapping.
C15_MissingTraitsAreSkipped ==
    op = "calculate_pppv" =>
        /\ DOMAIN Value = {index \in Requested :
                              Resolves(PairDam, index) /\ Resolves(PairBull, index)}
        /\ \A index \in DOMAIN Value :
              /\ Value[index].cow_value = Round(ParentValue(PairDam, index), 100)
              /\ Value[index].bull_value = Round(ParentValue(PairBull, index), 100)
        /\ BothEmpty => DOMAIN Value = {}

\* a request for scs and milk where scs has no usable value on the sire side
\* (a string float() rejects) and milk has a value on both sides
C15_Witness ==
    /\ op = "calculate_pppv"
    /\ result.indices = <<"scs", "milk">>
    /\ Resolves(PairDam, "scs")
    /\ ~Resolves(PairBull, "scs")
    /\ Get(PairBull.top, "scs") # None
    /\ DOMAIN Value = {"milk"}
    /\ Value["milk"].cow_value = RatInt(500)

\* C16: the status of a single-pair evaluation follows from the reported
\* score, the reported expected inbreeding and the haplotype records in
\* fixed priority: a critical record gives not_recommended; otherwise
\* score >= 75 and inbreeding <= 6.0 gives highly_recommended; otherwise
\* score >= 60 and inbreeding <= 6.0 gives recommended; otherwise
\* score >= 50 or inbreeding <= 8.0 gives acceptable; otherwise
\* not_recommended.
C16_StatusByFixedPriority ==
    (op = "match_single" /\ Value.error = "") =>
        LET score == Value.analysis.compatibility.score
            inb == Value.analysis.inbreeding.expected_inbreeding
            risks == Value.analysis.inbreeding.haplotype_risks
            status == Value.recommendation.status
        IN  /\ ~NoCriticalRecord(risks) => status = "not_recommended"
            /\ NoCriticalRecord(risks) =>
                  /\ (RatLeq(RatInt(75), score) /\ RatLeq(inb, RatInt(6)))
                        => status = "highly_recommended"
                  /\ (RatLt(score, RatInt(75)) /\ RatLeq(RatInt(60), score)
                      /\ RatLeq(inb, RatInt(6))) => status = "recommended"
                  /\ (RatLt(score, RatInt(60)) \/ RatLt(RatInt(6), inb))
                        => IF RatLeq(RatInt(50), score) \/ RatLeq(inb, RatInt(8))
                           THEN status = "acceptable"
                           ELSE status = "not_recommended"

\* a pair with a critical haplotype record whose score and inbreeding alone
\* would have given a better status
C16_Witness ==
    /\ op = "match_single"
    /\ Value.error = ""
    /\ ~NoCriticalRecord(Value.analysis.inbreeding.haplotype_risks)
    /\ RatLeq(RatInt(50), Value.analysis.compatibility.score)
    /\ Value.recommendation.status = "not_recommended"

\* the dams of the batch whose ranking raises
FailingDams == {i \in 1..Len(females) : RankRaises(females[i], bulls)}

\* C17: in a batch over several dams with bulls on offer, a failure while
\* ranking one dam does not abort the batch: there is one entry per dam,
\* the entry of a failing dam reports her error, and the entry of every
\* other dam carries her ranking.
C17_FailingDamDoesNotAbortBatch ==
    (op = "match_batch" /\ bulls # <<>> /\ Len(females) > 1) =>
        /\ Value.error = ""
        /\ Len(Value.results) = Len(females)
        /\ \A i \in 1..Len(females) :
              IF i \in FailingDams
              THEN "error" \in DOMAIN Value.results[i]
              ELSE /\ Value.results[i].female.id = Get(females[i].top, "id")
                   /\ "top_bulls" \in DOMAIN Value.results[i]

\* C18: no operation of the engine changes the dam records, the sire
\* records, the GeneticParameters or the population statistics: every step
\* leaves them as they were, so after any sequence of evaluations they
\* equal their values before it.
C18_EngineLeavesInputsUnchanged ==
    [][/\ females' = females
       /\ bulls' = bulls
       /\ params' = params
       /\ population_stats' = population_stats]_vars

\* a ranking over several bulls that has left out a bull and returned the
\* others, with the configuration as constructed
C18_Witness ==
    /\ op = "rank_bulls_for_female"
    /\ Len(bulls) > 1
    /\ Value # <<>>
    /\ Len(Value) < Len(bulls)
    /\ params = GeneticParameters
    /\ population_stats = PopulationStats

\* the record a lookup was applied to
LookupRecord == IF result.female # 0 THEN females[result.female] ELSE bulls[result.bull]

\* the values the lookup of a trait goes through, in its order: the keys in
\* the top level, then in 'main_indices', then in 'genetic_data'
Candidates(data, index) ==
    [i \in 1..Len(KeysToTry(index)) |-> Get(data.top, KeysToTry(index)[i])]
    \o [i \in 1..Len(KeysToTry(index)) |-> Get(data.main_indices, KeysToTry(index)[i])]
    \o [i \in 1..Len(KeysToTry(index)) |-> Get(data.genetic_data, KeysToTry(index)[i])]

\* the value parses as a finite number
ParsesFinite(v) == Parses(v) /\ IsFinite(FloatOf(v))

\* C19: the lookup of a trait never raises and returns None or a finite
\* number: the first candidate, in the order top-level keys, 'main_indices',
\* 'genetic_data', whose value parses as a finite number, and None when
\* there is none; a value that does not parse or is not finite is passed
\* over.
C19_LookupReturnsFirstFiniteCandidate ==
    op = "_get_index_value" =>
        LET c == Candidates(LookupRecord, result.indices[1])
            hits == {i \in 1..Len(c) : ParsesFinite(c[i])}
        IN  /\ "error" \notin DOMAIN Value
            /\ Value = IF hits = {} THEN None ELSE Num(FloatOf(c[Min(hits)]))

\* the bands of the score: their lower edges and the grade of each
BandEdges == <<85, 75, 65, 55, 45, 35>>

BandGrades ==
    <<"A+ Excepcional", "A Excelente", "B+ Muito Bom", "B Bom", "C Medio",
      "D Abaixo da Media", "F Inadequado">>

\* the score is in band k: at least the edge of the band and below the edge
\* of the band above it; the last band is everything below 35
InBand(score, k) ==
    /\ k <= Len(BandEdges) => RatLeq(RatInt(BandEdges[k]), score)
    /\ k > 1 => RatLt(score, RatInt(BandEdges[k - 1]))

\* C20: the grade returned with an economic index is the band of the
\* returned normalized score, and the bands partition the range without
\* overlap: A+ iff score >= 85, A iff 75 <= score < 85, B+ iff 65 <= score
\* < 75, B iff 55 <= score < 65, C iff 45 <= score < 55, D iff 35 <= score
\* < 45, F iff score < 35.
C20_GradeIsBandOfReturnedScore ==
    (op = "calculate_economic_index" /\ "error" \notin DOMAIN Value) =>
        /\ \A k \in 1..Len(BandGrades) :
              Value.grade = BandGrades[k] <=> InBand(Value.iep_normalized, k)
        /\ Cardinality({k \in 1..Len(BandGrades) : InBand(Value.iep_normalized, k)}) = 1

\* the economic index of the pair of the last call under the weights of the
\* request
PairIndex == calculate_economic_index(PairDam, PairBull, custom_weights)

\* C21: the compatibility score is a re-projection of the economic index of
\* the same dam, sire and weights: its fields are score, base_score,
\* adjustments, the per-category contributions, the inbreeding result, grade
\* and reliability; score, grade, reliability and inbreeding result are those
\* of the economic index, and the other fields are derived from its fields.
C21_CompatibilityReprojectsIndex ==
    (op = "calculate_compatibility_score" /\ "error" \notin DOMAIN Value) =>
        /\ DOMAIN Value = {"score", "base_score", "adjustments", "contributions",
                           "inbreeding", "grade", "reliability"}
        /\ Value.score = PairIndex.iep_normalized
        /\ Value.grade = PairIndex.grade
        /\ Value.reliability = PairIndex.reliability
        /\ Value.inbreeding = PairIndex.inbreeding
        /\ Value.base_score = RatAdd(RatInt(50), RatMul(PairIndex.base_score, RatInt(15)))
        /\ Value.adjustments.inbreeding_penalty =
              RatNeg(RatMul(PairIndex.inbreeding_penalty, RatInt(15)))
        /\ DOMAIN Value.contributions = DOMAIN PairIndex.categories
        /\ \A c \in DOMAIN Value.contributions :
              /\ Value.contributions[c].weight = PairIndex.categories[c].weight
              /\ Value.contributions[c].contribution = PairIndex.categories[c].contribution

\* a pair under category priorities whose inbreeding penalty is positive and
\* whose score differs from base score plus adjustment
C21_Witness ==
    /\ op = "calculate_compatibility_score"
    /\ custom_weights # EmptyMap
    /\ RatLt(Value.adjustments.inbreeding_penalty, RatInt(0))
    /\ Value.score # RatAdd(Value.base_score, Value.adjustments.inbreeding_penalty)
    /\ Value.score = PairIndex.iep_normalized

\* the genomic figures of the pair of the last call
DamFigure == _get_index_value(PairDam, "genomic_inbreeding")

SireFigure == _get_index_value(PairBull, "gfi")

\* the method the claim gives for the figures that are present
MethodByFigures ==
    IF DamFigure # None /\ SireFigure # None THEN {"genomic"}
    ELSE IF DamFigure # None \/ SireFigure # None THEN {"partial_genomic"}
    ELSE {"pedigree", "estimated"}

\* the estimate the claim gives for the figures that are present
EstimateByFigures ==
    IF DamFigure # None /\ SireFigure # None
    THEN RatAdd(RatDiv(DamFigure.n, RatInt(4)), RatDiv(SireFigure.n, RatInt(2)))
    ELSE IF DamFigure # None THEN RatAdd(RatDiv(DamFigure.n, RatInt(4)), RatInt(4))
    ELSE RatAdd(RatDiv(SireFigure.n, RatInt(2)), RatInt(3))

\* C22 as stated: with both figures the method is 'genomic' and the expected
\* inbreeding is dam/4 + sire/2; with the dam figure only it is
\* 'partial_genomic' and dam/4 + 4.0; with the sire figure only it is
\* 'partial_genomic' and sire/2 + 3.0; pedigree or fallback estimation is
\* used only when neither figure is present.
C22_MethodAndEstimateByFigures ==
    (op = "calculate_inbreeding" /\ "error" \notin DOMAIN Value) =>
        /\ Value.method \in MethodByFigures
        /\ (DamFigure # None \/ SireFigure # None) =>
              Value.expected_inbreeding = EstimateByFigures

\* C22: the method is selected by precedence as stated, and the expected
\* inbreeding reported is the stated estimate rounded to two decimals.
C22_MethodAndRoundedEstimateByFigures ==
    (op = "calculate_inbreeding" /\ "error" \notin DOMAIN Value) =>
        /\ Value.method \in MethodByFigures
        /\ (DamFigure # None \/ SireFigure # None) =>
              Value.expected_inbreeding = Round(EstimateByFigures, 100)

\* a dam with the figure 8.01 whose sire is the bull of the pair, and a bull
\* without a figure: the estimate is partial genomic, 8.01/4 + 4 = 6.0025
\* reported as 6.0, although the pedigree names a relationship
C22_Witness ==
    /\ op = "calculate_inbreeding"
    /\ DamFigure = F(801, 100)
    /\ SireFigure = None
    /\ Get(PairDam.top, "sire_naab") = Get(PairBull.top, "naab_code")
    /\ Value.method = "partial_genomic"
    /\ Value.expected_inbreeding = RatInt(6)

\* the pedigree fields of the pair of the last call, as the estimate reads
\* them: the NAAB code first, the registration number when there is none
CowSire == PyOr(Get(PairDam.top, "sire_naab"), Get(PairDam.top, "sire_reg"))

CowMgs == PyOr(Get(PairDam.top, "mgs_naab"), Get(PairDam.top, "mgs_reg"))

BullSire == PyOr(Get(PairBull.top, "sire_naab"), Get(PairBull.top, "sire_reg"))

BullMgs == PyOr(Get(PairBull.top, "mgs_naab"), Get(PairBull.top, "mgs_reg"))

BullCode == Get(PairBull.top, "naab_code")

\* the four relationships of the claim, from the closest to the most distant
SireIsDamsSire == Truthy(CowSire) /\ BullCode = CowSire

SireIsDamsMgs == Truthy(CowMgs) /\ BullCode = CowMgs

SharedSire == Truthy(CowSire) /\ Truthy(BullSire) /\ CowSire = BullSire

SharedMgs == Truthy(CowMgs) /\ Truthy(BullMgs) /\ CowMgs = BullMgs

\* the percentage the claim gives for the relationships of the pair
PedigreeByRelationship ==
    IF SireIsDamsSire THEN RatInt(25)
    ELSE IF SireIsDamsMgs THEN Rat(125, 10)
    ELSE IF SharedSire THEN Rat(125, 10)
    ELSE IF SharedMgs THEN Rat(625, 100)
    ELSE RatInt(4)

PairPPPV == calculate_pppv(PairDam, PairBull, SetToSeq(AllIndices))

\* the z-score of the PPPV of a trait against the population, negated for a
\* trait where lower is better
SignedZ(index) ==
    LET z == RatDiv(RatSub(PairPPPV[index].pppv, StatsOf(index).mean), StatsOf(index).std)
    IN  IF index \in params.negative_indices THEN RatNeg(z) ELSE z

\* the sum over the available traits of a category of trait_weight x z-score
WeightedTraits(category) ==
    SumFn([index \in DOMAIN params.index_weights[category] \cap DOMAIN PairPPPV |->
              RatMul(params.index_weights[category][index], SignedZ(index))])

\* the category weights in force: those of the request, the configured ones
\* when the request has none
WeightsInForce ==
    IF custom_weights = EmptyMap THEN params.category_weights ELSE custom_weights

\* the sum over the categories of category_weight x the sum of the category
WeightedCategories ==
    SumFn([category \in DOMAIN WeightsInForce \cap DOMAIN params.index_weights |->
              RatMul(WeightsInForce[category], WeightedTraits(category))])

\* penalty_lambda x max(0, expected_inbreeding - ideal_threshold)
PenaltyOf(expected_inbreeding) ==
    RatMul(params.inbreeding_penalty_lambda,
           RatMax(RatInt(0), RatSub(expected_inbreeding, params.inbreeding_ideal)))

\* C24: the raw score of the economic index is the sum over the categories
\* of category_weight x the sum over the category's available traits of
\* trait_weight x z-score (negated for a trait where lower is better), minus
\* the inbreeding penalty penalty_lambda x max(0, expected inbreeding -
\* ideal); the penalty is never negative and is 0 when the expected
\* inbreeding is at most the ideal level.  The result reports the raw
\* score, the sum and the penalty to three decimals.
C24_RawScoreIsWeightedSumMinusPenalty ==
    (op = "calculate_economic_index" /\ "error" \notin DOMAIN Value) =>
        LET penalty == PenaltyOf(Value.inbreeding.expected_inbreeding)
        IN  /\ Value.iep_raw = Round(RatSub(WeightedCategories, penalty), 1000)
            /\ Value.base_score = Round(WeightedCategories, 1000)
            /\ Value.inbreeding_penalty = Round(penalty, 1000)
            /\ RatLeq(RatInt(0), Value.inbreeding_penalty)
            /\ RatLeq(Value.inbreeding.expected_inbreeding, params.inbreeding_ideal)
                  => Value.inbreeding_penalty = RatInt(0)

\* a pair with both traits on both sides, the lower-is-better one above the
\* population mean, and an expected inbreeding above the ideal level
C24_Witness ==
    /\ op = "calculate_economic_index"
    /\ custom_weights = EmptyMap
    /\ DOMAIN PairPPPV = {"milk", "scs"}
    /\ RatLt(SignedZ("scs"), RatInt(0))
    /\ RatLt(params.inbreeding_ideal, Value.inbreeding.expected_inbreeding)
    /\ RatLt(RatInt(0), Value.inbreeding_penalty)
    /\ RatLt(Value.iep_raw, Value.base_score)

\* the explicit reliabilities of a trait in a record, in the order of the
\* lookup: the top-level '<trait>_rel', the entry of the 'reliabilities'
\* map, the three spellings in 'genetic_data'
ExplicitReliabilities(data, index) ==
    <<Get(data.top, index \o "_rel"),
      PyOr(Get(data.reliabilities, index \o "_rel"), Get(data.reliabilities, index)),
      Get(data.genetic_data, index \o "_rel"),
      Get(data.genetic_data, Upper(index) \o "_REL"),
      Get(data.genetic_data, index \o " REL")>>

\* the value parses to a number in [0, 100]
ParsesInRange(v) ==
    /\ ParsesFinite(v)
    /\ RatLeq(RatInt(0), FloatOf(v))
    /\ RatLeq(FloatOf(v), RatInt(100))

\* the progeny count of a record, 0 when it has none that is a number
ProgenyCount(data) ==
    LET daughters == PyOr(Get(data.top, "daughters"), Get(data.top, "num_daughters"))
    IN  IF Truthy(daughters) /\ IntParses(daughters) /\ daughters.t # "big"
        THEN IntOf(daughters) ELSE 0

\* the reliabilities inferred from a progeny count, by the lowest count of
\* each step
ProgenySteps == <<<<1, 75>>, <<50, 80>>, <<100, 85>>, <<500, 95>>, <<1000, 99>>>>

\* the reliability the claim gives for a record in a role
ClaimedReliability(data, index, is_bull) ==
    LET e == ExplicitReliabilities(data, index)
        hits == {i \in 1..Len(e) : ParsesInRange(e[i])}
        n == ProgenyCount(data)
        steps == {k \in 1..Len(ProgenySteps) : ProgenySteps[k][1] <= n}
    IN  IF hits # {} THEN FloatOf(e[Min(hits)])
        ELSE IF is_bull /\ n > 0 THEN RatInt(ProgenySteps[CHOOSE k \in steps : \A j \in steps : j <= k][2])
        ELSE IF is_bull THEN params.default_bull_reliability
        ELSE params.default_cow_reliability

\* C25: the reliability used for a parent is within [0, 100]: the first
\* explicit reliability (top-level '<trait>_rel', 'reliabilities' map,
\* 'genetic_data') that parses to a number in [0, 100], an explicit value
\* that does not being passed over; without one, for a sire with a positive
\* progeny count, the value of a non-decreasing step function of the count
\* that never exceeds 99; otherwise the default of the role, the sire's
\* being the higher.
C25_ReliabilityWithinRange ==
    (op = "calculate_pppv" /\ result.indices = <<"milk">>) =>
        /\ "error" \notin DOMAIN Value
        /\ Value["milk"].cow_reliability = ClaimedReliability(PairDam, "milk", FALSE)
        /\ Value["milk"].bull_reliability = ClaimedReliability(PairBull, "milk", TRUE)
        /\ InUnitRange(Value["milk"].cow_reliability)
        /\ InUnitRange(Value["milk"].bull_reliability)
        /\ \A k \in 1..(Len(ProgenySteps) - 1) :
              ProgenySteps[k][2] <= ProgenySteps[k + 1][2] /\ ProgenySteps[k + 1][2] <= 99
        /\ RatLt(params.default_cow_reliability, params.default_bull_reliability)

\* the ranking of one dam alone against the candidate list of the state, in
\* the form in which a batch reports it
SingleDamRanking(female_data) ==
    LET r == rank_bulls_for_female(female_data, bulls, top_n, max_inbreeding,
                                   custom_weights)
    IN  [i \in 1..Len(r) |-> FormatBull(r[i])]

\* C26: in a batch of several dams, the top_bulls list that match_batch
\* produces for a dam equals the ranking of that dam alone against the same
\* candidates with the same top_n, max_inbreeding and weights, whatever the
\* other dams of the batch are and in whatever order the dams are processed.
C26_BatchRankingPerDamIsIndependent ==
    (op = "match_batch" /\ Value.error = "") =>
        /\ Len(Value.results) = Len(females)
        /\ \A i \in 1..Len(females) :
              Value.results[i].top_bulls = SingleDamRanking(females[i])
        /\ \A p \in ListPermutations(females) :
              LET r == match_batch(p, bulls, custom_weights, max_inbreeding, top_n)
              IN  \A j \in 1..Len(p) : r.results[j].top_bulls = SingleDamRanking(p[j])

\* a batch of two dams over several bulls that has returned a different
\* non-empty list for each dam, the second dam having at the top of her list
\* the bull that the first dam has at the top of hers
C26_Witness ==
    /\ op = "match_batch"
    /\ Value.error = ""
    /\ Len(females) = 2
    /\ Len(bulls) > 1
    /\ Value.results[1].top_bulls # <<>>
    /\ Value.results[2].top_bulls # <<>>
    /\ Value.results[1].top_bulls # Value.results[2].top_bulls
    /\ Value.results[1].top_bulls[1].bull = Value.results[2].top_bulls[1].bull

\* the dam of a ranking
RankedDam == females[result.female]

\* the positions of the candidate list whose bull passes both filters for
\* the dam of the ranking: inbreeding within the limit, no critical record
PassingCandidates ==
    {i \in 1..Len(bulls) :
        LET e == RankEntry(RankedDam, bulls[i], custom_weights)
        IN  /\ RatLeq(e.inbreeding, max_inbreeding)
            /\ NoCriticalRecord(e.full_analysis.inbreeding.haplotype_risks)}

\* the positions of the candidate list whose bull is in the ranking
IncludedCandidates ==
    {i \in 1..Len(bulls) : \E k \in 1..Len(Value) : Value[k].bull.id = Get(bulls[i].top, "id")}

ScoreOfCandidate(i) == RankEntry(RankedDam, bulls[i], custom_weights).iep

\* C27: rank_bulls_for_female returns the best top_n eligible candidates:
\* every entry is a passing candidate of the input list and no candidate
\* appears twice, every passing candidate appears when top_n is at least
\* the number of passing candidates (and top_n of them appear when it is
\* less and not negative), no passing candidate left out has a normalized
\* score strictly greater than an included one, and the entry at position i
\* (from 1) carries rank i.
C27_RankingIsBestTopN ==
    (Ranked /\ ~RankRaises(RankedDam, bulls)) =>
        /\ \A k \in 1..Len(Value) :
              /\ \E i \in PassingCandidates : Value[k].bull.id = Get(bulls[i].top, "id")
              /\ Value[k].iep = ScoreOfCandidate(PosOf(Value[k]))
              /\ Value[k].rank = k
        /\ \A k, l \in 1..Len(Value) : k # l => Value[k].bull.id # Value[l].bull.id
        /\ top_n >= Cardinality(PassingCandidates) => IncludedCandidates = PassingCandidates
        /\ (0 <= top_n /\ top_n < Cardinality(PassingCandidates)) => Len(Value) = top_n
        /\ \A out \in PassingCandidates \ IncludedCandidates :
              \A in \in IncludedCandidates :
                  ~RatLt(ScoreOfCandidate(in), ScoreOfCandidate(out))

\* a ranking with top_n 2 over three passing candidates: two are returned,
\* and the one left out has a strictly lower score than both
C27_Witness ==
    /\ Ranked
    /\ top_n = 2
    /\ Cardinality(PassingCandidates) = 3
    /\ Len(Value) = 2
    /\ \E out \in PassingCandidates \ IncludedCandidates :
          \A in \in IncludedCandidates : RatLt(ScoreOfCandidate(out), ScoreOfCandidate(in))

\* C28: the risk tier and the acceptability flag of an InbreedingResult
\* agree: whenever acceptable is true under the default thresholds,
\* risk_level is one of the two lowest tiers, 'Baixo' or 'Moderado', never
\* 'Alto' or 'Critico'.
C28_AcceptableImpliesLowOrModerateRisk ==
    (op = "calculate_inbreeding" /\ "error" \notin DOMAIN Value /\ Value.acceptable) =>
        Value.risk_level \in {"Baixo", "Moderado"}

\* C29: a single-pair recommendation never endorses a mating that the
\* inbreeding analysis rejects: whenever the InbreedingResult of the pair
\* has acceptable = false under the default thresholds, the status that
\* match_single reports is not_recommended.
C29_RejectedMatingIsNotRecommended ==
    (op = "match_single" /\ Value.error = ""
        /\ ~Value.analysis.inbreeding.acceptable) =>
        Value.recommendation.status = "not_recommended"

\* the contribution of every category to the index of a pair, as computed:
\* category_weight x the weighted sum of the category's available traits
CategoryContributions(female_data, bull_data) ==
    LET pppv_data == calculate_pppv(female_data, bull_data, SetToSeq(AllIndices))
    IN  [c \in DOMAIN WeightsInForce \cap DOMAIN params.index_weights |->
            RatMul(CategoryScore(pppv_data, c), WeightsInForce[c])]

\* the pairs of the herd and the catalogue whose evaluation has the category
\* contributions of the pair of the last call
SameContributionPairs ==
    {p \in IndexDams \X IndexBulls :
        CategoryContributions(p[1], p[2]) = CategoryContributions(PairDam, PairBull)}

\* C30: the normalized score of the economic index is non-increasing in the
\* expected inbreeding: of two evaluations with the same category
\* contributions under the same configuration, the one with the higher
\* expected inbreeding never has the higher normalized score, and the two
\* scores are equal when both inbreeding values are at most the ideal level.
C30_ScoreNonIncreasingInInbreeding ==
    (op = "calculate_economic_index" /\ "error" \notin DOMAIN Value) =>
        \A p \in SameContributionPairs :
            LET other == calculate_economic_index(p[1], p[2], custom_weights)
                inb == Value.inbreeding.expected_inbreeding
                other_inb == other.inbreeding.expected_inbreeding
            IN  /\ RatLt(inb, other_inb) => RatLeq(other.iep_normalized, Value.iep_normalized)
                /\ RatLt(other_inb, inb) => RatLeq(Value.iep_normalized, other.iep_normalized)
                /\ (RatLeq(inb, params.inbreeding_ideal)
                        /\ RatLeq(other_inb, params.inbreeding_ideal))
                      => other.iep_normalized = Value.iep_normalized

\* an evaluation with both traits and an inbreeding below the ideal level,
\* with the same contributions as one of lower inbreeding and equal score,
\* and as one of inbreeding above the ideal level and strictly lower score
C30_Witness ==
    /\ op = "calculate_economic_index"
    /\ "error" \notin DOMAIN Value
    /\ DOMAIN PairPPPV = {"milk", "scs"}
    /\ RatLt(Value.inbreeding.expected_inbreeding, params.inbreeding_ideal)
    /\ \E p \in SameContributionPairs :
          LET other == calculate_economic_index(p[1], p[2], custom_weights)
          IN  /\ RatLt(other.inbreeding.expected_inbreeding,
                       Value.inbreeding.expected_inbreeding)
              /\ other.iep_normalized = Value.iep_normalized
    /\ \E p \in SameContributionPairs :
          LET other == calculate_economic_index(p[1], p[2], custom_weights)
          IN  /\ RatLt(params.inbreeding_ideal, other.inbreeding.expected_inbreeding)
              /\ RatLt(RatInt(0), other.iep_normalized)
              /\ RatLt(other.iep_normalized, Value.iep_normalized)

====
